---- MODULE Spec2Model ----
(***************************************************************************)
(* A model of the entropy-decoding path of jsjpeg: the DataViewReader bit  *)
(* reader (nextBit and peek/consumeBits), the Huffman decoders, EXTEND /   *)
(* RECEIVE, the DC/AC coefficient decoder and the MCU loop of decodeScan.  *)
(*                                                                         *)
(* A JavaScript exception (RangeError of DataView.getUint8/getUint16) is   *)
(* modelled by the field exc of the machine record: once exc # "none" the  *)
(* call chain is unwound and no further operation runs.                    *)
(***************************************************************************)
EXTENDS Integers, Sequences, FiniteSets, TLC

VARIABLES
    view,       \* the bytes behind the DataView (view[i+1] is getUint8(i))
    mach,       \* reader fields (index, byte, cnt, buffer, buffSize) and the
                \* parts of img the reader touches (dcpred, frameY), with exc/ret
    mode,       \* which read interface the client uses: "bit" or "peek"
    last,       \* the last reader operation: its name, size, result, position
    pos,        \* position in the de-stuffed bit stream of the next bit to take
    ext,        \* EXTEND: the inputs v, t and the result
    huff,       \* Huffman decoders under test, their readers and outputs
    scan,       \* decodeScan: loop position, restart interval, coefficients
    blk         \* one block or table under test, with the operation's result

vars == <<view, mach, mode, last, pos, ext, huff, scan, blk>>

(***************************************************************************)
(* Bounds of the model.                                                    *)
(***************************************************************************)
MaxViewLen == 3     \* longest enumerated byte buffer of the reader model
MaxExtra == 8       \* bits a client may take beyond the 8*MaxViewLen buffered
MaxT == 11          \* largest magnitude category passed to extend
MaxCodeLen == 4     \* longest code of the enumerated Huffman tables
MaxCodes == 3       \* most codes in an enumerated Huffman table
MaxSyms == 3        \* longest enumerated symbol sequence
MaxScanLen == 4     \* longest enumerated entropy-coded segment of a scan
MaxMCUs == 3        \* MCUs of the frame (hMCUs, with vMCUs = 1)
MaxRi == 2          \* largest restart interval

(***************************************************************************)
(* Program constants.                                                      *)
(***************************************************************************)
NUM_HUFFMAN_LENGTHS == 16
TABLE_LENGTH == 16

Undefined == -1000000

(***************************************************************************)
(* Bit helpers. A byte is 8 bits, most significant first; the 32-bit       *)
(* integer this.buffer is a sequence of 32 bits, most significant first.   *)
(***************************************************************************)
ByteBits(b) == [i \in 1..8 |-> (b \div (2 ^ (8 - i))) % 2]

RECURSIVE BitsToNat(_)
BitsToNat(s) ==
    IF Len(s) = 0 THEN 0
    ELSE 2 * BitsToNat(SubSeq(s, 1, Len(s) - 1)) + s[Len(s)]

Zero32 == [i \in 1..32 |-> 0]

\* this.buffer << 8 | byte, on a 32-bit integer
ShiftIn(buffer, byte) == SubSeq(buffer, 9, 32) \o ByteBits(byte)

(***************************************************************************)
(* DataViewReader                                                          *)
(***************************************************************************)
\* constructor + reset(); dcpred and frameY are the img fields handed in
reset(dcpred, frameY) ==
    [index |-> -1, byte |-> 0, cnt |-> 0, buffer |-> Zero32, buffSize |-> 0,
     dcpred |-> dcpred, frameY |-> frameY,
     exc |-> "none", ret |-> 0, met |-> <<>>]

\* One record of the branch taken on the byte after a 0xFF (at: index of the 0xFF)
Met(s, kind, at) == [s EXCEPT !.met = Append(@, [kind |-> kind, at |-> at])]

\* view.getUint8(++this.index): throws RangeError outside the view
nextByte(s) ==
    LET i == s.index + 1
    IN  IF i < 0 \/ i >= Len(view)
        THEN [s EXCEPT !.index = i, !.exc = "RangeError"]
        ELSE [s EXCEPT !.index = i, !.ret = view[i + 1]]

\* view.getUint16(++this.index); this.index++
nextWord(s) ==
    LET i == s.index + 1
    IN  IF i < 0 \/ i + 1 >= Len(view)
        THEN [s EXCEPT !.index = i, !.exc = "RangeError"]
        ELSE [s EXCEPT !.index = i + 1, !.ret = view[i + 1] * 256 + view[i + 2]]

hasMoreBytes(s) == s.index < Len(view) - 1

\* parseDNL(reader, img): length word, then the new number of lines
parseDNL(s) ==
    LET a == nextWord(s)
    IN  IF a.exc # "none" THEN a
        ELSE LET b == nextWord(a)
             IN  IF b.exc # "none" THEN b
                 ELSE [b EXCEPT !.frameY = b.ret]

align(s) == [s EXCEPT !.cnt = 0, !.buffSize = 0]

\* The tail of nextBit: take the high bit of this.byte
TakeBit(s) ==
    [s EXCEPT !.ret = s.byte \div 128, !.cnt = s.cnt - 1,
              !.byte = (s.byte * 2) % 256]

\* nextBit, the branch on byte2 after this.byte === 0xFF
NextBitMarker(c, at) ==
    LET byte2 == c.ret
    IN  IF byte2 = 0 THEN TakeBit(Met(c, "stuffed", at))
        ELSE IF byte2 = 220
        THEN LET d == parseDNL(Met(c, "DNL", at))
             IN  IF d.exc # "none" THEN d ELSE TakeBit(d)
        ELSE IF byte2 >= 208 /\ byte2 <= 215
        THEN LET d == [Met(c, "RST", at) EXCEPT
                          !.cnt = 1,
                          !.dcpred = [k \in DOMAIN c.dcpred |-> 0]]
                 e == nextByte(d)
             IN  IF e.exc # "none" THEN e
                 ELSE TakeBit([e EXCEPT !.byte = e.ret])
        ELSE TakeBit(Met(c, "other", at))

\* nextBit without the look at the byte after a 0xFF: stuffing is not dropped
nextBitNoDestuff(s) ==
    IF s.cnt # 0 THEN TakeBit(s)
    ELSE LET a == nextByte(s)
         IN  IF a.exc # "none" THEN a
             ELSE TakeBit([a EXCEPT !.byte = a.ret, !.cnt = 8])

nextBit(s) ==
    IF s.cnt # 0 THEN TakeBit(s)
    ELSE LET a == nextByte(s)
         IN  IF a.exc # "none" THEN a
             ELSE LET b == [a EXCEPT !.byte = a.ret, !.cnt = 8]
                  IN  IF b.byte # 255 THEN TakeBit(b)
                      ELSE LET c == nextByte(b)
                           IN  IF c.exc # "none" THEN c
                               ELSE NextBitMarker(c, b.index)

\* this.buffer = this.buffer << 8 | byte; this.buffSize += 8
Push(s, byte) ==
    [s EXCEPT !.buffer = ShiftIn(@, byte), !.buffSize = @ + 8]

\* peek, the branch on byte2 after byte === 0xFF (the 0xFF is already pushed)
PeekMarker(c, at) ==
    LET byte2 == c.ret
    IN  IF byte2 = 0 THEN Met(c, "stuffed", at)
        ELSE IF byte2 = 220 THEN parseDNL(Met(c, "DNL", at))
        ELSE IF byte2 >= 208 /\ byte2 <= 215
        THEN [Push(Met(c, "RST", at), 255) EXCEPT !.index = @ - 2]
        ELSE IF byte2 = 217 THEN Met(c, "EOI", at)
        ELSE Met(c, "other", at)

\* the while loop of peek
RECURSIVE PeekFill(_, _)
PeekFill(s, numBits) ==
    IF s.exc # "none" \/ ~(s.buffSize < numBits) THEN s
    ELSE IF ~hasMoreBytes(s) THEN PeekFill(Push(s, 255), numBits)
    ELSE LET a == nextByte(s)
             b == Push(a, a.ret)
         IN  IF a.ret # 255 THEN PeekFill(b, numBits)
             ELSE LET c == nextByte(b)
                  IN  IF c.exc # "none" THEN c
                      ELSE PeekFill(PeekMarker(c, b.index), numBits)

\* this.buffer >> (this.buffSize - numBits) & ((1 << numBits) - 1)
TopBits(s, numBits) ==
    BitsToNat(SubSeq(s.buffer, 33 - s.buffSize, 32 - s.buffSize + numBits))

\* peek that also takes the bits it returns out of the register
peekConsuming(s, numBits) ==
    LET f == PeekFill(s, numBits)
    IN  IF f.exc # "none" THEN f
        ELSE [f EXCEPT !.ret = TopBits(f, numBits), !.buffSize = @ - numBits]

peek(s, numBits) ==
    LET f == PeekFill(s, numBits)
    IN  IF f.exc # "none" THEN f ELSE [f EXCEPT !.ret = TopBits(f, numBits)]

\* this.peek(numBits) as consumeBits calls it: the argument lands in img and
\* numBits is undefined, so buffSize < numBits is false and nothing is read
PeekNoSize(s) == s

consumeBits(s, numBits) ==
    LET a == IF numBits > s.buffSize THEN PeekNoSize(s) ELSE s
    IN  [a EXCEPT !.buffSize = @ - numBits]

(***************************************************************************)
(* HuffTree: a node is its path from the root (0 = left, 1 = right); its   *)
(* level is the length of the path. nodes holds the nodes created so far,  *)
(* data the value of each (Undefined while it has none).                   *)
(***************************************************************************)
NewTree == [nodes |-> {<<>>}, data |-> [p \in {<<>>} |-> Undefined]]

\* this.left = new HuffTree(level + 1); this.right = new HuffTree(level + 1)
AddPair(t, p) ==
    LET l == Append(p, 0)
        r == Append(p, 1)
    IN  [nodes |-> t.nodes \cup {l, r},
         data |-> [q \in t.nodes \cup {l, r} |->
                      IF q \in t.nodes THEN t.data[q] ELSE Undefined]]

\* insertCode that tries the right child before the left one
RECURSIVE treeInsertRightFirst(_, _, _, _)
treeInsertRightFirst(t, p, codeLength, value) ==
    IF t.data[p] # Undefined THEN [ok |-> FALSE, t |-> t]
    ELSE IF codeLength = Len(p)
    THEN [ok |-> TRUE, t |-> [t EXCEPT !.data[p] = value]]
    ELSE IF Append(p, 0) \notin t.nodes
    THEN treeInsertRightFirst(AddPair(t, p), Append(p, 1), codeLength, value)
    ELSE LET r == treeInsertRightFirst(t, Append(p, 1), codeLength, value)
         IN  IF r.ok THEN r
             ELSE treeInsertRightFirst(r.t, Append(p, 0), codeLength, value)

\* insertCode without the test that turns away from a node holding a value
RECURSIVE treeInsertBelowLeaf(_, _, _, _)
treeInsertBelowLeaf(t, p, codeLength, value) ==
    IF codeLength = Len(p)
    THEN IF t.data[p] = Undefined
         THEN [ok |-> TRUE, t |-> [t EXCEPT !.data[p] = value]]
         ELSE [ok |-> FALSE, t |-> t]
    ELSE IF Append(p, 0) \notin t.nodes
    THEN treeInsertBelowLeaf(AddPair(t, p), Append(p, 0), codeLength, value)
    ELSE LET l == treeInsertBelowLeaf(t, Append(p, 0), codeLength, value)
         IN  IF l.ok THEN l
             ELSE treeInsertBelowLeaf(l.t, Append(p, 1), codeLength, value)

\* HuffTree.insertCode on the node at path p; a failed attempt keeps the
\* nodes it created
RECURSIVE treeInsertCode(_, _, _, _)
treeInsertCode(t, p, codeLength, value) ==
    IF t.data[p] # Undefined THEN [ok |-> FALSE, t |-> t]
    ELSE IF codeLength = Len(p)
    THEN [ok |-> TRUE, t |-> [t EXCEPT !.data[p] = value]]
    ELSE IF Append(p, 0) \notin t.nodes
    THEN treeInsertCode(AddPair(t, p), Append(p, 0), codeLength, value)
    ELSE LET l == treeInsertCode(t, Append(p, 0), codeLength, value)
         IN  IF l.ok THEN l
             ELSE treeInsertCode(l.t, Append(p, 1), codeLength, value)

\* nextBit(reader, img), the function HuffTree.decodeHuffman calls: the
\* NEXTBIT of the reader
globalNextBit(s) == nextBit(s)

\* HuffTree.decodeHuffman from the node at path p; ret is the value found,
\* Undefined after the descent into a missing child. treeDescend is the loop
\* body with a the reader after nextBit and q the node descendNode returns
RECURSIVE treeDecodeFrom(_, _, _)
RECURSIVE treeDescend(_, _, _)
treeDecodeFrom(t, p, s) == treeDescend(t, p, globalNextBit(s))

treeDescend(t, p, a) ==
    IF a.exc # "none" THEN a
    ELSE IF Append(p, a.ret) \notin t.nodes THEN [a EXCEPT !.ret = Undefined]
    ELSE IF t.data[Append(p, a.ret)] # Undefined
    THEN [a EXCEPT !.ret = t.data[Append(p, a.ret)]]
    ELSE treeDecodeFrom(t, Append(p, a.ret), a)

treeDecodeHuffman(t, s) == treeDecodeFrom(t, <<>>, s)

(***************************************************************************)
(* HuffArray: the JavaScript arrays huffval, huffsize, huffcode start at 0 *)
(* and are sequences here, so huffsize[k] of the code is huffsize[k + 1].  *)
(***************************************************************************)
NewArray == [bits |-> <<>>, huffval |-> <<>>, huffsize |-> <<>>, huffcode |-> <<>>]

\* Figure C.1: bits[i] entries i for i = 1..16
RECURSIVE GenSizes(_, _)
GenSizes(bits, i) ==
    IF i > NUM_HUFFMAN_LENGTHS THEN <<>>
    ELSE [j \in 1..bits[i] |-> i] \o GenSizes(bits, i + 1)

\* Figure C.2 without code = code << 1 between two lengths
RECURSIVE GenCodesNoShift(_, _, _, _, _)
GenCodesNoShift(huffsize, k, code, si, huffcode) ==
    IF huffsize[k + 1] = 0 THEN huffcode
    ELSE IF huffsize[k + 1] = si
    THEN GenCodesNoShift(huffsize, k + 1, code + 1, si, Append(huffcode, code))
    ELSE GenCodesNoShift(huffsize, k, code, si + 1, huffcode)

\* Figure C.2: the two nested while loops, k counted from 0
RECURSIVE GenCodes(_, _, _, _, _)
GenCodes(huffsize, k, code, si, huffcode) ==
    IF huffsize[k + 1] = 0 THEN huffcode
    ELSE IF huffsize[k + 1] = si
    THEN GenCodes(huffsize, k + 1, code + 1, si, Append(huffcode, code))
    ELSE GenCodes(huffsize, k, code * 2, si + 1, huffcode)

arrInitDecoder(a, bits) ==
    LET hs == Append(GenSizes(bits, 1), 0)
    IN  [a EXCEPT !.bits = bits, !.huffsize = hs,
                  !.huffcode = GenCodes(hs, 0, 0, hs[1], <<>>)]

arrInsertCode(a, codeLength, value) ==
    [ok |-> TRUE, a |-> [a EXCEPT !.huffval = Append(@, value)]]

\* The first loop of decodeHuffman: mincode, maxcode, valptr for i..16
RECURSIVE DecodeTables(_, _, _, _)
DecodeTables(a, i, j, acc) ==
    IF i > NUM_HUFFMAN_LENGTHS THEN acc
    ELSE IF a.bits[i] = 0
    THEN DecodeTables(a, i + 1, j, [acc EXCEPT !.maxcode[i] = -1])
    ELSE DecodeTables(a, i + 1, j + a.bits[i],
             [acc EXCEPT !.valptr[i] = j,
                         !.mincode[i] = a.huffcode[j + 1],
                         !.maxcode[i] = a.huffcode[j + a.bits[i]]])

NoTables ==
    [maxcode |-> [i \in 1..NUM_HUFFMAN_LENGTHS |-> Undefined],
     mincode |-> [i \in 1..NUM_HUFFMAN_LENGTHS |-> Undefined],
     valptr  |-> [i \in 1..NUM_HUFFMAN_LENGTHS |-> Undefined]]

\* this.huffval[j], undefined outside the array
ValueAt(a, j) == IF j >= 0 /\ j < Len(a.huffval) THEN a.huffval[j + 1] ELSE Undefined

\* The second loop: code > maxcode[i] is false once i passes 16 (undefined);
\* arrDecodeBit is its body with b the reader after reader.nextBit(img)
RECURSIVE arrDecodeLoop(_, _, _, _, _)
RECURSIVE arrDecodeBit(_, _, _, _, _)
arrDecodeLoop(a, tabs, i, code, s) ==
    IF i <= NUM_HUFFMAN_LENGTHS /\ code > tabs.maxcode[i]
    THEN arrDecodeBit(a, tabs, i, code, nextBit(s))
    ELSE IF i > NUM_HUFFMAN_LENGTHS THEN [s EXCEPT !.ret = Undefined]
    ELSE [s EXCEPT !.ret = ValueAt(a, tabs.valptr[i] + code - tabs.mincode[i])]

arrDecodeBit(a, tabs, i, code, b) ==
    IF b.exc # "none" THEN b
    ELSE arrDecodeLoop(a, tabs, i + 1, code * 2 + b.ret, b)

\* b: the reader after the first reader.nextBit(img)
arrDecodeFirst(a, tabs, b) ==
    IF b.exc # "none" THEN b ELSE arrDecodeLoop(a, tabs, 1, b.ret, b)

arrDecodeHuffman(a, s) ==
    arrDecodeFirst(a, DecodeTables(a, 1, 0, NoTables), nextBit(s))

(***************************************************************************)
(* HuffTable: table holds (value, code length) pairs, 1 << (TABLE_LENGTH - *)
(* codeLength) equal pairs for every code; runs holds one entry for each   *)
(* such run of equal pairs, in table order.                                *)
(***************************************************************************)
NewTable == [bits |-> <<>>, runs |-> <<>>, counts |-> <<>>, index |-> 0]

tabInitDecoder(h, bits) ==
    [bits |-> bits, runs |-> <<>>, counts |-> [i \in 1..Len(bits) |-> 0],
     index |-> 0]

tabInsertCode(h, codeLength, value) ==
    IF codeLength > TABLE_LENGTH THEN [ok |-> FALSE, h |-> h]
    ELSE IF h.counts[codeLength] >= h.bits[codeLength] THEN [ok |-> FALSE, h |-> h]
    ELSE [ok |-> TRUE,
          h |-> [h EXCEPT
                   !.counts[codeLength] = @ + 1,
                   !.runs = Append(@, [value |-> value, len |-> codeLength,
                                       n |-> 2 ^ (TABLE_LENGTH - codeLength)]),
                   !.index = @ + 2 * 2 ^ (TABLE_LENGTH - codeLength)]]

(***************************************************************************)
(* extend (Figure F.12); -1 << t is -(2^t) for the t < 31 used here        *)
(***************************************************************************)
\* extend with the comparison v <= vt in place of v < vt
extendLeq(v, t) ==
    IF t = 0 THEN 0
    ELSE LET vt == 2 ^ (t - 1)
         IN  IF v <= vt THEN v + (-(2 ^ t) + 1) ELSE v

extend(v, t) ==
    IF t = 0 THEN 0
    ELSE IF t = Undefined THEN v    \* v < NaN is false
    ELSE LET vt == 2 ^ (t - 1)
         IN  IF v < vt THEN v + (-(2 ^ t) + 1) ELSE v

(***************************************************************************)
(* Coefficient decoding: decodeDCCoeff, decodeACCoeffs, decodeDataUnit.    *)
(* The reader record carries img.scan.dcpred, indexed by component id.     *)
(***************************************************************************)
\* undefined >> 4 and undefined & 0x0F are 0
getHighNibble(byte) == IF byte = Undefined THEN 0 ELSE byte \div 16

getLowNibble(byte) == IF byte = Undefined THEN 0 ELSE byte % 16

\* the loop of receive: v = (v << 1) + reader.nextBit(img); receiveBit is
\* its body with b the reader after reader.nextBit(img)
RECURSIVE receiveLoop(_, _, _)
RECURSIVE receiveBit(_, _, _)
receiveLoop(s, v, n) ==
    IF n = 0 THEN [s EXCEPT !.ret = v] ELSE receiveBit(nextBit(s), v, n)

receiveBit(b, v, n) ==
    IF b.exc # "none" THEN b ELSE receiveLoop(b, 2 * v + b.ret, n - 1)

\* i < undefined is false: no bit is read
receive(s, ssss) ==
    IF ssss = Undefined THEN [s EXCEPT !.ret = 0] ELSE receiveLoop(s, 0, ssss)

\* decodeDCCoeff after receive: b is the reader, t the category; val is
\* dcpred + diff, with scan.dcpred[id] read after the bits
dcValue(b, t, id) ==
    IF b.exc # "none" THEN [rd |-> b, val |-> 0, diff |-> 0]
    ELSE [rd |-> b, val |-> b.dcpred[id] + extend(b.ret, t), diff |-> extend(b.ret, t)]

\* decodeDCCoeff after dcTable.decodeHuffman: a is the reader, a.ret is t
dcReceive(a, id) ==
    IF a.exc # "none" THEN [rd |-> a, val |-> 0, diff |-> 0]
    ELSE dcValue(receive(a, a.ret), a.ret, id)

decodeDCCoeff(s, id, dcTable) == dcReceive(arrDecodeHuffman(dcTable, s), id)

Zeros64 == [i \in 1..64 |-> 0]

\* zigzagCoeff[k] = v on a JavaScript array: an index past the end grows it
SetCoeff(zz, k, v) ==
    [i \in 1..(IF k + 1 > Len(zz) THEN k + 1 ELSE Len(zz)) |->
        IF i = k + 1 THEN v ELSE IF i <= Len(zz) THEN zz[i] ELSE Undefined]

\* the for loop of decodeACCoeffs, from k; acSymbol is its body with a the
\* reader after acTable.decodeHuffman (a.ret is rs), acAmplitude the DECODE_ZZ
\* branch with b the reader after receive
RECURSIVE acLoop(_, _, _, _)
RECURSIVE acSymbol(_, _, _, _)
RECURSIVE acAmplitude(_, _, _, _, _)
\* acSymbol with ZRL standing for 15 zero coefficients instead of 16
acSymbolZrl15(a, zz, k, acTable) ==
    IF a.exc # "none" THEN [rd |-> a, zz |-> zz]
    ELSE IF getLowNibble(a.ret) = 0
    THEN IF getHighNibble(a.ret) = 15 THEN acLoop(a, zz, k + 15, acTable)
         ELSE IF getHighNibble(a.ret) = 0 THEN [rd |-> a, zz |-> zz]
         ELSE acLoop(a, zz, k + 1, acTable)
    ELSE acAmplitude(receive(a, getLowNibble(a.ret)), zz,
                     k + getHighNibble(a.ret), getLowNibble(a.ret), acTable)

acLoop(s, zz, k, acTable) ==
    IF ~(k < 64) THEN [rd |-> s, zz |-> zz]
    ELSE acSymbol(arrDecodeHuffman(acTable, s), zz, k, acTable)

acSymbol(a, zz, k, acTable) ==
    IF a.exc # "none" THEN [rd |-> a, zz |-> zz]
    ELSE IF getLowNibble(a.ret) = 0
    THEN IF getHighNibble(a.ret) = 15 THEN acLoop(a, zz, k + 16, acTable)
         ELSE IF getHighNibble(a.ret) = 0 THEN [rd |-> a, zz |-> zz]
         ELSE acLoop(a, zz, k + 1, acTable)
    ELSE acAmplitude(receive(a, getLowNibble(a.ret)), zz,
                     k + getHighNibble(a.ret), getLowNibble(a.ret), acTable)

acAmplitude(b, zz, k, ssss, acTable) ==
    IF b.exc # "none" THEN [rd |-> b, zz |-> zz]
    ELSE acLoop(b, SetCoeff(zz, k, extend(b.ret, ssss)), k + 1, acTable)

decodeACCoeffs(s, zz, acTable) == acLoop(s, zz, 1, acTable)

\* decodeDataUnit after decodeACCoeffs, up to the coefficients in zig-zag order
unitResult(ac, diff) == [rd |-> ac.rd, zz |-> ac.zz, diff |-> diff]

\* decodeDataUnit after decodeDCCoeff: scan.dcpred[id] = zigzagCoeff[0]
unitAfterDC(dc, id, acTable) ==
    IF dc.rd.exc # "none" THEN [rd |-> dc.rd, zz |-> Zeros64, diff |-> 0]
    ELSE unitResult(decodeACCoeffs([dc.rd EXCEPT !.dcpred[id] = dc.val],
                                   SetCoeff(Zeros64, 0, dc.val), acTable),
                    dc.diff)

decodeDataUnit(s, id, dcTable, acTable) ==
    unitAfterDC(decodeDCCoeff(s, id, dcTable), id, acTable)

(***************************************************************************)
(* Idle values of the variables a specification does not use               *)
(***************************************************************************)
IdleExt == [v |-> 0, t |-> 0, r |-> 0, done |-> FALSE]
IdleHuff == [pc |-> "idle"]
IdleScan == [pc |-> "idle"]
IdleLast == [op |-> "none", n |-> 0, val |-> 0]
IdleMach == reset(<<0>>, 0)
IdleBlk == [pc |-> "idle"]

extVars == <<ext>>
huffVars == <<huff>>
scanVars == <<scan>>
readerVars == <<view, mach, mode, last, pos>>
blkVars == <<blk>>

(***************************************************************************)
(* Specification SpecExtend: extend applied to every (v, t) of its domain  *)
(***************************************************************************)
InitExtend ==
    /\ view = <<>> /\ mach = IdleMach /\ mode = "bit" /\ last = IdleLast
    /\ pos = 0
    /\ huff = IdleHuff /\ scan = IdleScan /\ blk = IdleBlk
    /\ \E t \in 0..MaxT : \E v \in 0..(2 ^ t - 1) :
           ext = [v |-> v, t |-> t, r |-> 0, done |-> FALSE]

ApplyExtend ==
    /\ ~ext.done
    /\ ext' = [ext EXCEPT !.r = extend(ext.v, ext.t), !.done = TRUE]
    /\ UNCHANGED <<blkVars, readerVars, huffVars, scanVars>>

NextExtend == ApplyExtend

SpecExtend == InitExtend /\ [][NextExtend]_vars

Abs(x) == IF x < 0 THEN -x ELSE x

\* C8: extend(v, t) is the JPEG EXTEND function: 0 for t = 0, v for
\* v >= 2^(t-1), v - 2^t + 1 for v < 2^(t-1); for t >= 1 the result r has
\* 2^(t-1) <= |r| <= 2^t - 1, and no other v of the same t gives the same r.
C8_ExtendIsJpegExtend ==
    ext.done =>
        LET v == ext.v
            t == ext.t
            r == ext.r
        IN  /\ t = 0 => r = 0
            /\ (t >= 1 /\ v >= 2 ^ (t - 1)) => r = v
            /\ (t >= 1 /\ v < 2 ^ (t - 1)) => r = v - 2 ^ t + 1
            /\ t >= 1 => (2 ^ (t - 1) <= Abs(r) /\ Abs(r) <= 2 ^ t - 1)
            /\ \A v2 \in 0..(2 ^ t - 1) : v2 # v => extend(v2, t) # r

\* EXTEND(0b00101, 5) = -26 has been computed
C8_Witness == ext.done /\ ext.t = 5 /\ ext.v = 5 /\ ext.r = -26

(***************************************************************************)
(* Specification SpecReader: a client drives one DataViewReader over a     *)
(* byte buffer, either bit by bit (nextBit) or with peek/consumeBits, and  *)
(* may call align() at any point.                                          *)
(***************************************************************************)
\* Bytes the enumerated buffers are made of: data (0x00, 0x5A), 0xFF, RST0
RdBytes == {0, 90, 255}

\* Further buffers: a whole DNL segment (marker, length 4, lines), EOI and
\* an APP0 marker inside the data, RST0 and RST7
MarkerViews ==
    { <<255, 220, 0, 4, 0, 90, 90>>, <<90, 255, 220, 0, 4, 0, 8, 90>>,
      <<90, 255, 217>>, <<255, 224, 90>>, <<90, 255, 215, 90>>,
      <<255, 208, 90>>, <<0, 255, 208>> }

RdViews ==
    (UNION { [1..n -> RdBytes] : n \in 1..MaxViewLen }) \cup MarkerViews

\* The DC predictors and the frame height of a scan that is under way
RdDcpred == <<3, -2>>
RdFrameY == 16

\* Sizes the client peeks and consumes (TABLE_LENGTH is what HuffTable peeks)
PeekSizes == {1, 5, TABLE_LENGTH}
ConsumeSizes == {1, 3, TABLE_LENGTH}

PosLimit == 8 * Len(view) + MaxExtra

Fresh(s) == [s EXCEPT !.met = <<>>]

\* Number of data bytes among the first k bytes of the view: a 0x00 that
\* follows a 0xFF is stuffing and is no data byte
RECURSIVE CountData(_, _)
CountData(j, k) ==
    IF j > k THEN 0
    ELSE IF view[j] = 255 /\ j + 1 <= Len(view) /\ view[j + 1] = 0
    THEN 1 + CountData(j + 2, k)
    ELSE 1 + CountData(j + 1, k)

InitReader ==
    /\ view \in RdViews
    /\ mode \in {"bit", "peek"}
    /\ mach = reset(RdDcpred, RdFrameY)
    /\ last = IdleLast /\ pos = 0
    /\ ext = IdleExt /\ huff = IdleHuff /\ scan = IdleScan /\ blk = IdleBlk

RdNextBit ==
    /\ mode = "bit" /\ mach.exc = "none" /\ pos < PosLimit
    /\ LET r == nextBit(Fresh(mach))
       IN  /\ mach' = r
           /\ last' = [op |-> "nextBit", n |-> 1, val |-> r.ret]
           /\ pos' = IF r.exc = "none" THEN pos + 1 ELSE pos
    /\ UNCHANGED <<blkVars, view, mode, extVars, huffVars, scanVars>>

RdPeek(numBits) ==
    /\ mode = "peek" /\ mach.exc = "none"
    /\ LET r == peek(Fresh(mach), numBits)
       IN  /\ mach' = r
           /\ last' = [op |-> "peek", n |-> numBits, val |-> r.ret]
    /\ UNCHANGED <<blkVars, view, mode, pos, extVars, huffVars, scanVars>>

RdConsumeBits(numBits) ==
    /\ mode = "peek" /\ mach.exc = "none" /\ pos + numBits <= PosLimit
    /\ mach' = consumeBits(Fresh(mach), numBits)
    /\ last' = [op |-> "consumeBits", n |-> 0, val |-> 0]
    /\ pos' = pos + numBits
    /\ UNCHANGED <<blkVars, view, mode, extVars, huffVars, scanVars>>

\* align(): from here the reader starts at the byte after index. last.val
\* is what was dropped beyond the rest of the partially taken byte, in bits
RdAlign ==
    /\ mach.exc = "none"
    /\ mach' = align(Fresh(mach))
    /\ LET boundary == 8 * ((pos + 7) \div 8)
           resume == 8 * CountData(1, mach.index + 1)
       IN  /\ last' = [op |-> "align", n |-> 0, val |-> resume - boundary]
           /\ pos' = resume
    /\ UNCHANGED <<blkVars, view, mode, extVars, huffVars, scanVars>>

NextReader ==
    \/ RdNextBit
    \/ \E numBits \in PeekSizes : RdPeek(numBits)
    \/ \E numBits \in ConsumeSizes : RdConsumeBits(numBits)
    \/ RdAlign

SpecReader == InitReader /\ [][NextReader]_vars

(***************************************************************************)
(* The reference bit stream of a buffer: its bytes with every 0x00 that    *)
(* follows a 0xFF removed, most significant bit first, then 1 bits.        *)
(***************************************************************************)
RECURSIVE Destuff(_)
Destuff(j) ==
    IF j > Len(view) THEN <<>>
    ELSE IF view[j] = 255 /\ j + 1 <= Len(view) /\ view[j + 1] = 0
    THEN <<255>> \o Destuff(j + 2)
    ELSE <<view[j]>> \o Destuff(j + 1)

\* Entropy-coded data without markers: every 0xFF is followed by 0x00
Clean ==
    \A j \in 1..Len(view) :
        view[j] = 255 => (j < Len(view) /\ view[j + 1] = 0)

RefLen == 8 * Len(Destuff(1))

RefBit(q) ==
    IF q < RefLen THEN ByteBits(Destuff(1)[(q \div 8) + 1])[(q % 8) + 1] ELSE 1

RefNat(p, n) == BitsToNat([i \in 1..n |-> RefBit(p + i - 1)])

\* Stream position at which the last read started
LastPos == IF last.op = "nextBit" /\ mach.exc = "none" THEN pos - 1 ELSE pos

IsRead == last.op \in {"nextBit", "peek"}

HasStuffing == \E j \in 1..(Len(view) - 1) : view[j] = 255 /\ view[j + 1] = 0

\* C2: in a buffer of entropy data, a 0x00 that follows a 0xFF is consumed
\* together with the 0xFF and never delivered: every read, by nextBit or by
\* peek, returns the bits of the de-stuffed stream at the client's position
\* (0xFF,0x00,B reads as the 8 bits of 0xFF, then the 8 bits of B).
C2_Destuffing ==
    (Clean /\ HasStuffing /\ mach.exc = "none" /\ IsRead) =>
        /\ last.val = RefNat(LastPos, last.n)
        /\ \A i \in 1..Len(mach.met) :
               mach.met[i].kind = "stuffed" => mach.index >= mach.met[i].at + 1

\* nextBit has delivered all 16 bits of 0xFF,0x00,0x5A: the last is bit 0 of 0x5A
C2_Witness ==
    /\ view = <<255, 0, 90>> /\ mode = "bit" /\ mach.exc = "none"
    /\ pos = 16 /\ last.op = "nextBit" /\ last.val = 0 /\ mach.index = 2

\* C3 (as claimed): a read that meets 0xFF followed by RSTn or DNL leaves
\* the marker to the driver: the next two byte reads are 0xFF and the marker
\* (index is just before the 0xFF), and the DC predictors and the frame are
\* as they were.
C3_MarkerHandedBack ==
    [][ \A i \in 1..Len(mach'.met) :
            (mach'.met[i].kind \in {"RST", "DNL"} /\ mach'.exc = "none") =>
                /\ mach'.index = mach'.met[i].at - 1
                /\ mach'.dcpred = mach.dcpred
                /\ mach'.frameY = mach.frameY ]_vars

\* C4 (as claimed): 0xFF followed by a byte other than 0x00, RSTn, DNL ends
\* the read in an error that reaches the caller.
C4_UnexpectedMarkerHalts ==
    (\E i \in 1..Len(mach.met) : mach.met[i].kind \in {"other", "EOI"}) =>
        mach.exc # "none"

\* C5 (as claimed): a read that reaches past the last byte of the buffer
\* does not fail and returns 1 for every bit past the end.
C5_OnesPastEnd ==
    (Clean /\ IsRead /\ LastPos + last.n > RefLen) =>
        /\ mach.exc = "none"
        /\ \A i \in 1..last.n :
               LastPos + i - 1 >= RefLen =>
                   (last.val \div (2 ^ (last.n - i))) % 2 = 1

\* C6: peek(n) takes nothing: its value is in 0..2^n-1, a second peek(n)
\* right after it returns the same value, and on entropy data the value is
\* the next n bits of the de-stuffed stream at the client's position, which
\* consumeBits(k) moves forward by k.
C6_PeekDoesNotConsume ==
    [][ (mode = "peek" /\ last'.op = "peek" /\ mach'.exc = "none") =>
            /\ last'.val \in 0..(2 ^ last'.n - 1)
            /\ (last.op = "peek" /\ last.n = last'.n) => last'.val = last.val
            /\ Clean => last'.val = RefNat(pos', last'.n) ]_vars

\* after consumeBits(3) on 0xFF,0x00,0x5A, peek(16) returns bits 3..18
C6_Witness ==
    /\ view = <<255, 0, 90>> /\ mode = "peek" /\ pos = 3
    /\ last.op = "peek" /\ last.n = 16 /\ last.val = 64215

\* C7 (as claimed): align() drops the rest of the partially taken byte and
\* nothing else, so the next read starts at the first byte no bit of which
\* was delivered: no whole unread byte is skipped, none is read twice.
C7_AlignDropsOnlyPartialByte ==
    (Clean /\ last.op = "align") => last.val = 0

(***************************************************************************)
(* Specification SpecHuff: one Huffman table is loaded into a HuffTree and *)
(* a HuffArray the way parseHuffmanTable does it (initDecoder, then        *)
(* insertCode for every value, shortest codes first), and both decode the  *)
(* same entropy-coded buffer, each with a reader of its own.               *)
(***************************************************************************)
\* The table of testHuffmanDecoder and its values
TestBits == <<0, 0, 7, 1, 1, 1, 1, 1, 0, 0, 0, 0, 0, 0, 0, 0>>
TestValues == <<4, 5, 3, 2, 6, 1, 0, 7, 8, 9, 10, 11>>

Sum(f, n) ==
    LET RECURSIVE Go(_)
        Go(i) == IF i = 0 THEN 0 ELSE f[i] + Go(i - 1)
    IN  Go(n)

\* Histograms with at most MaxCodes codes that some prefix code realises
HuffBits ==
    { [i \in 1..NUM_HUFFMAN_LENGTHS |-> IF i <= MaxCodeLen THEN b[i] ELSE 0] :
        b \in { c \in [1..MaxCodeLen -> 0..MaxCodes] :
                  /\ Sum(c, MaxCodeLen) \in 1..MaxCodes
                  /\ Sum([i \in 1..MaxCodeLen |-> c[i] * 2 ^ (MaxCodeLen - i)],
                         MaxCodeLen) <= 2 ^ MaxCodeLen } }

\* The canonical code of the k-th value: lengths never decrease, so it is
\* the sum over the earlier values j of 2^(len[k] - len[j])
CanonLen(bits, k) == GenSizes(bits, 1)[k]

CanonCode(bits, k) ==
    LET len == GenSizes(bits, 1)
    IN  Sum([j \in 1..(k - 1) |-> 2 ^ (len[k] - len[j])], k - 1)

CodeBits(bits, k) ==
    LET n == CanonLen(bits, k)
        c == CanonCode(bits, k)
    IN  [i \in 1..n |-> (c \div (2 ^ (n - i))) % 2]

RECURSIVE StreamBits(_, _)
StreamBits(bits, syms) ==
    IF Len(syms) = 0 THEN <<>>
    ELSE CodeBits(bits, Head(syms)) \o StreamBits(bits, Tail(syms))

\* Pack into bytes, the last one padded with 1 bits, 0x00 after every 0xFF
RECURSIVE PackBytes(_)
PackBytes(b) ==
    IF Len(b) = 0 THEN <<>>
    ELSE LET chunk == IF Len(b) >= 8 THEN SubSeq(b, 1, 8)
                      ELSE b \o [i \in 1..(8 - Len(b)) |-> 1]
             byte == BitsToNat(chunk)
             rest == IF Len(b) > 8 THEN PackBytes(SubSeq(b, 9, Len(b))) ELSE <<>>
         IN  (IF byte = 255 THEN <<255, 0>> ELSE <<byte>>) \o rest

SymSeqs(n) == UNION { [1..m -> 1..n] : m \in 1..MaxSyms }

InitHuffState(bits, values, syms) ==
    [pc |-> "init", bits |-> bits, values |-> values, syms |-> syms, k |-> 0,
     tree |-> NewTree, arr |-> NewArray, inserted |-> TRUE,
     treeM |-> reset(<<0>>, 0), arrM |-> reset(<<0>>, 0),
     treeOut |-> <<>>, arrOut |-> <<>>]

InitHuff ==
    /\ mach = IdleMach /\ mode = "bit" /\ last = IdleLast /\ pos = 0
    /\ ext = IdleExt /\ scan = IdleScan /\ blk = IdleBlk
    /\ \/ \E bits \in HuffBits :
            \E syms \in SymSeqs(Sum(bits, MaxCodeLen)) :
               /\ huff = InitHuffState(bits,
                             SubSeq(TestValues, 1, Sum(bits, MaxCodeLen)), syms)
               /\ view = PackBytes(StreamBits(bits, syms))
       \/ /\ huff = InitHuffState(TestBits, TestValues,
                                  [i \in 1..Len(TestValues) |-> i])
          /\ view = PackBytes(StreamBits(TestBits,
                                  [i \in 1..Len(TestValues) |-> i]))

\* decoder.initDecoder(bits) on both decoders
HfInitDecoder ==
    /\ huff.pc = "init"
    /\ huff' = [huff EXCEPT !.pc = "insert",
                            !.arr = arrInitDecoder(huff.arr, huff.bits)]
    /\ UNCHANGED <<blkVars, readerVars, extVars, scanVars>>

\* decoder.insertCode(length, value) for the next value, on both decoders
HfInsertCode ==
    /\ huff.pc = "insert"
    /\ LET k == huff.k + 1
           len == CanonLen(huff.bits, k)
           t == treeInsertCode(huff.tree, <<>>, len, huff.values[k])
           a == arrInsertCode(huff.arr, len, huff.values[k])
       IN  huff' = [huff EXCEPT
                       !.k = k, !.tree = t.t, !.arr = a.a,
                       !.inserted = huff.inserted /\ t.ok /\ a.ok,
                       !.pc = IF k = Len(huff.values) THEN "decode" ELSE "insert"]
    /\ UNCHANGED <<blkVars, readerVars, extVars, scanVars>>

\* decoder.decodeHuffman(reader, img) once on each decoder
HfDecode ==
    /\ huff.pc = "decode"
    /\ huff.treeM.exc = "none" /\ huff.arrM.exc = "none"
    /\ LET t == treeDecodeHuffman(huff.tree, Fresh(huff.treeM))
           a == arrDecodeHuffman(huff.arr, Fresh(huff.arrM))
       IN  huff' = [huff EXCEPT
                       !.treeM = t, !.arrM = a,
                       !.treeOut = IF t.exc = "none" THEN Append(@, t.ret) ELSE @,
                       !.arrOut = IF a.exc = "none" THEN Append(@, a.ret) ELSE @,
                       !.pc = IF Len(huff.treeOut) + 1 >= Len(huff.syms)
                              THEN "done" ELSE "decode"]
    /\ UNCHANGED <<blkVars, readerVars, extVars, scanVars>>

NextHuff == HfInitDecoder \/ HfInsertCode \/ HfDecode

SpecHuff == InitHuff /\ [][NextHuff]_vars

\* C1: for a table inserted in canonical order and a buffer made of its
\* codes, every insertCode succeeds, no read fails, and the values the tree
\* decoder and the array decoder have returned so far are the same and are
\* the values whose canonical codes were written, in order.
C1_DecodersAgree ==
    huff.pc \in {"decode", "done"} =>
        /\ huff.inserted
        /\ huff.treeM.exc = "none" /\ huff.arrM.exc = "none"
        /\ huff.treeOut = huff.arrOut
        /\ Len(huff.treeOut) <= Len(huff.syms)
        /\ \A i \in 1..Len(huff.treeOut) :
               huff.treeOut[i] = huff.values[huff.syms[i]]
        /\ huff.pc = "done" => Len(huff.treeOut) = Len(huff.syms)

\* both decoders have decoded the 12 values of the table of testHuffmanDecoder
C1_Witness ==
    /\ huff.pc = "done" /\ huff.bits = TestBits
    /\ huff.treeOut = TestValues /\ huff.arrOut = TestValues

(***************************************************************************)
(* Specification SpecScan: decodeScan over a frame of MaxMCUs MCUs with    *)
(* two components of one data unit each, read with nextBit and decoded     *)
(* with HuffArray tables, for every restart interval up to MaxRi.          *)
(***************************************************************************)
\* component ids of the data units of one MCU, in scan order
ScUnits == <<1, 2>>

RECURSIVE LoadValues(_, _, _)
LoadValues(a, lens, vals) ==
    IF Len(vals) = 0 THEN a
    ELSE LoadValues(arrInsertCode(a, Head(lens), Head(vals)).a, Tail(lens), Tail(vals))

\* parseHuffmanTable: initDecoder(bits), then insertCode for every value
LoadTable(bits, vals) ==
    LoadValues(arrInitDecoder(NewArray, bits), GenSizes(bits, 1), vals)

\* DC table: categories 0, 1, 2 under the codes 00, 01, 10
ScDcTable ==
    LoadTable([i \in 1..NUM_HUFFMAN_LENGTHS |-> IF i = 2 THEN 3 ELSE 0], <<0, 1, 2>>)

\* AC table: EOB 00, 0/1 01, 1/1 100, ZRL 101, 2/0 110
ScAcTable ==
    LoadTable([i \in 1..NUM_HUFFMAN_LENGTHS |->
                  IF i = 2 THEN 2 ELSE IF i = 3 THEN 3 ELSE 0],
              <<0, 1, 17, 240, 32>>)

ScBytes == {0, 96, 108, 255, 208}

\* well-formed segments: Ri = 2 (two MCUs, RST0, one MCU) and Ri = 1
RestartViews ==
    {<<96, 48, 63, 255, 208, 0>>, <<96, 127, 255, 208, 96, 127, 255, 209, 0>>}

ScViews == (UNION { [1..n -> ScBytes] : n \in 1..MaxScanLen }) \cup RestartViews

ZeroPred == [c \in 1..Len(ScUnits) |-> 0]

InitScan ==
    /\ view \in ScViews
    /\ mach = reset(RdDcpred, RdFrameY)
    /\ mode = "bit" /\ last = IdleLast /\ pos = 0
    /\ ext = IdleExt /\ huff = IdleHuff /\ blk = IdleBlk
    /\ \E ri \in 0..MaxRi :
          scan = [pc |-> "start", Ri |-> ri, mcuIndex |-> 0, u |-> 1,
                  zz |-> Zeros64, after |-> "none", id |-> 0, diff |-> 0,
                  predBefore |-> RdDcpred, indexBefore |-> -1,
                  sum |-> ZeroPred, restarts |-> 0, looked |-> 0, fills |-> 0]

\* decodeScan up to the MCU loop: scan.dcpred[id] = 0 for every component
ScStart ==
    /\ scan.pc = "start"
    /\ mach' = [mach EXCEPT !.dcpred = ZeroPred]
    /\ scan' = [scan EXCEPT !.pc = "mcu", !.after = "start"]
    /\ UNCHANGED <<blkVars, view, mode, last, pos, extVars, huffVars>>

RestartDue == scan.Ri > 0 /\ scan.mcuIndex > 0 /\ scan.mcuIndex % scan.Ri = 0

\* the head of the MCU loop: the look for a restart marker when one is due
ScMCUHead ==
    /\ scan.pc = "mcu" /\ scan.mcuIndex < MaxMCUs
    /\ IF RestartDue
       THEN LET a == nextByte(mach)
                b == nextByte(a)
                c == align([b EXCEPT !.dcpred = [k \in DOMAIN b.dcpred |-> 0]])
            IN  IF a.exc # "none" \/ b.exc # "none"
                THEN /\ mach' = IF a.exc # "none" THEN a ELSE b
                     /\ scan' = [scan EXCEPT !.pc = "failed", !.after = "none",
                                             !.looked = @ + 1]
                ELSE /\ mach' = c
                     /\ scan' = [scan EXCEPT !.pc = "unit", !.after = "restart",
                                    !.indexBefore = mach.index,
                                    !.sum = ZeroPred, !.restarts = @ + 1,
                                    !.looked = @ + 1, !.fills = @ + 1]
       ELSE /\ mach' = mach
            /\ scan' = [scan EXCEPT !.pc = "unit", !.after = "head"]
    /\ UNCHANGED <<blkVars, view, mode, last, pos, extVars, huffVars>>

\* the number of restart markers nextBit met (each one a dcpred.fill(0))
RECURSIVE CountRST(_)
CountRST(met) ==
    IF Len(met) = 0 THEN 0
    ELSE (IF Head(met).kind = "RST" THEN 1 ELSE 0) + CountRST(Tail(met))

\* decodeMCU: decodeDataUnit for the next data unit of the MCU
ScDataUnit ==
    /\ scan.pc = "unit"
    /\ LET id == ScUnits[scan.u]
           d == decodeDataUnit(Fresh(mach), id, ScDcTable, ScAcTable)
           lastUnit == scan.u = Len(ScUnits)
       IN  /\ mach' = d.rd
           /\ scan' = IF d.rd.exc # "none"
                      THEN [scan EXCEPT !.pc = "failed", !.after = "none",
                                        !.fills = @ + CountRST(d.rd.met)]
                      ELSE [scan EXCEPT
                               !.pc = IF lastUnit THEN "mcu" ELSE "unit",
                               !.u = IF lastUnit THEN 1 ELSE @ + 1,
                               !.mcuIndex = IF lastUnit THEN @ + 1 ELSE @,
                               !.zz = d.zz, !.after = "unit", !.id = id,
                               !.diff = d.diff, !.predBefore = mach.dcpred,
                               !.sum[id] = @ + d.diff,
                               !.fills = @ + CountRST(d.rd.met)]
    /\ UNCHANGED <<blkVars, view, mode, last, pos, extVars, huffVars>>

\* the MCU loop is over
ScEnd ==
    /\ scan.pc = "mcu" /\ scan.mcuIndex = MaxMCUs
    /\ scan' = [scan EXCEPT !.pc = "done", !.after = "none"]
    /\ UNCHANGED <<blkVars, readerVars, extVars, huffVars>>

NextScan == ScStart \/ ScMCUHead \/ ScDataUnit \/ ScEnd

SpecScan == InitScan /\ [][NextScan]_vars

\* C9: after a data unit of component c is decoded, coefficient 0 is the
\* predictor c had before the call plus the decoded DC difference, the
\* predictor of c is that value, the predictor of every other component is
\* what it was before the call, and while no restart interval has ended every
\* predictor is the sum of the differences decoded for its component.
C9_DcPrediction ==
    scan.after = "unit" =>
        /\ scan.zz[1] = scan.predBefore[scan.id] + scan.diff
        /\ mach.dcpred[scan.id] = scan.zz[1]
        /\ \A c \in DOMAIN mach.dcpred :
               c # scan.id => mach.dcpred[c] = scan.predBefore[c]
        /\ scan.restarts = 0 => mach.dcpred = scan.sum

\* C10: the predictors are zeroed exactly at scan start and at the restart
\* boundaries: every predictor is 0 when the scan starts; before an MCU m > 0
\* with m mod Ri = 0 two bytes are consumed, every predictor is 0 and the
\* reader is byte-aligned; and no other reset happens: the number of resets
\* since scan start is the number of restart boundaries passed, which with
\* Ri = 0 is none, and no marker is looked for.
C10_ResetExactlyAtBoundaries ==
    /\ scan.after = "start" => mach.dcpred = ZeroPred
    /\ scan.after = "restart" =>
           /\ mach.index = scan.indexBefore + 2
           /\ mach.dcpred = ZeroPred
           /\ mach.cnt = 0
    /\ scan.after = "head" /\ scan.mcuIndex > 0 => scan.Ri = 0 \/ scan.mcuIndex % scan.Ri # 0
    /\ scan.pc \notin {"start", "failed"} => scan.fills = scan.restarts
    /\ scan.Ri = 0 => scan.looked = 0 /\ scan.fills = 0

(***************************************************************************)
(* Specification SpecAC: decodeACCoeffs on the entropy coding of a         *)
(* sequence of AC symbols, each a composite RS value with the amplitude    *)
(* that follows it in the stream.                                          *)
(***************************************************************************)
MaxACSyms == 3

\* AC table: 00 (EOB), F0 (ZRL), 0/1, 1/1, 0/2, 14/1, 2/0 under 3-bit codes,
\* 15/1 under the 4-bit code 1110
AcBits ==
    [i \in 1..NUM_HUFFMAN_LENGTHS |-> IF i = 3 THEN 7 ELSE IF i = 4 THEN 1 ELSE 0]
AcValues == <<0, 240, 1, 17, 2, 225, 32, 241>>
AcTable == LoadTable(AcBits, AcValues)

Item(rs, amp) == [rs |-> rs, amp |-> amp]
ZRL == Item(240, 0)
EOB == Item(0, 0)

\* symbols of the streams: ZRL, coefficients of category 1 and 2 after runs
\* of 0, 1, 14 and 15 zeros, and 2/0, which Baseline does not define
AcItems ==
    {ZRL, Item(1, 1), Item(1, -1), Item(17, 1), Item(2, -3), Item(2, 2),
     Item(225, 1), Item(32, 0), Item(241, 1)}

\* streams that reach the end of the block
AcLongSeqs ==
    {<<ZRL, ZRL, ZRL, Item(225, 1)>>, <<ZRL, ZRL, ZRL, Item(241, 1)>>,
     <<ZRL, ZRL, ZRL, ZRL>>,
     <<Item(241, 1), Item(241, 1), Item(241, 1), Item(241, 1)>>,
     <<ZRL, Item(241, 1), ZRL, Item(225, -1)>>,
     <<ZRL, Item(32, 0), ZRL, Item(2, 2), Item(225, 1)>>}

AcSeqs == (UNION { [1..n -> AcItems] : n \in 0..MaxACSyms }) \cup AcLongSeqs

Ssss(it) == it.rs % 16
Rrrr(it) == it.rs \div 16

\* Reference positions: symbol i starts at Start(i), the first coefficient
\* not yet decided; a coefficient symbol puts its amplitude at At(i)
Advance(it) ==
    IF Ssss(it) = 0 THEN (IF Rrrr(it) = 15 THEN 16 ELSE 1) ELSE Rrrr(it) + 1
Start(items, i) == 1 + Sum([j \in 1..(i - 1) |-> Advance(items[j])], i - 1)
At(items, i) == Start(items, i) + Rrrr(items[i])
End(items) == Start(items, Len(items) + 1)

Supported(it) == Ssss(it) # 0 \/ Rrrr(it) \in {0, 15}

\* a stream a Baseline encoder can produce for one block
WellFormed(items) ==
    \A i \in 1..Len(items) :
        /\ Supported(items[i])
        /\ Start(items, i) <= 63
        /\ Ssss(items[i]) # 0 => At(items, i) <= 63

\* Reference run-length expansion of a well-formed stream over a block whose
\* coefficient p is block[p + 1]
RefExpand(block, items) ==
    [q \in 1..64 |->
        LET hits == { i \in 1..Len(items) :
                        Ssss(items[i]) # 0 /\ At(items, i) = q - 1 }
        IN  IF hits = {} THEN block[q] ELSE items[CHOOSE i \in hits : TRUE].amp]

\* Entropy coding: the code of RS, then the SSSS amplitude bits of F.1.2.2
AmpBits(it) ==
    LET n == Ssss(it)
        v == IF it.amp > 0 THEN it.amp ELSE it.amp + 2 ^ n - 1
    IN  [i \in 1..n |-> (v \div (2 ^ (n - i))) % 2]

AcIndex(rs) == CHOOSE i \in 1..Len(AcValues) : AcValues[i] = rs

RECURSIVE ItemBits(_)
ItemBits(items) ==
    IF Len(items) = 0 THEN <<>>
    ELSE CodeBits(AcBits, AcIndex(Head(items).rs)) \o AmpBits(Head(items))
         \o ItemBits(Tail(items))

\* EOB closes a block that is not full; the coefficient 0/1 that follows
\* belongs to the next block
AcStream(items) ==
    ItemBits(items \o (IF End(items) < 64 THEN <<EOB>> ELSE <<>>) \o <<Item(1, 1)>>)

InitAC ==
    /\ mach = IdleMach /\ mode = "bit" /\ last = IdleLast /\ pos = 0
    /\ ext = IdleExt /\ huff = IdleHuff /\ scan = IdleScan
    /\ \E items \in AcSeqs :
          /\ view = PackBytes(AcStream(items))
          /\ blk = [pc |-> "ac", items |-> items, zz |-> Zeros64]

\* decodeACCoeffs(reader, img, zigzagCoeff, acTable)
AcDecode ==
    /\ blk.pc = "ac"
    /\ mach' = decodeACCoeffs(mach, blk.zz, AcTable).rd
    /\ blk' = [blk EXCEPT !.pc = "done",
                          !.zz = decodeACCoeffs(mach, blk.zz, AcTable).zz]
    /\ UNCHANGED <<view, mode, last, pos, extVars, huffVars, scanVars>>

NextAC == AcDecode
SpecAC == InitAC /\ [][NextAC]_vars

\* C11: decodeACCoeffs reconstructs the run-length coding: EOB ends the
\* block, ZRL moves on by 16 positions, a symbol with SSSS # 0 moves on by
\* RRRR positions, stores EXTEND(RECEIVE(SSSS), SSSS) there and moves on by
\* one, and decoding ends after position 63; the block is the reference
\* expansion of the symbols, every other coefficient being left alone.
C11_RunLengthExpansion ==
    (blk.pc = "done" /\ WellFormed(blk.items)) =>
        /\ mach.exc = "none"
        /\ blk.zz = RefExpand(Zeros64, blk.items)

C11_Witness ==
    /\ blk.pc = "done"
    /\ blk.items = <<ZRL, Item(241, 1), ZRL, Item(225, -1)>>
    /\ blk.zz[32 + 1] = 1 /\ blk.zz[63 + 1] = -1

\* the first symbol Baseline does not define is symbol i, and it is reached
FirstUnsupported(items, i) ==
    /\ i \in 1..Len(items)
    /\ ~Supported(items[i])
    /\ WellFormed(SubSeq(items, 1, i - 1))
    /\ Start(items, i) <= 63

\* C12: an AC symbol with SSSS = 0 and RRRR other than 0 and 15 makes
\* decodeACCoeffs end in a failure the caller sees, and no AC symbol after it
\* is decoded.
C12_UnsupportedRunLengthFails ==
    \A i \in 1..MaxACSyms + 2 :
        (blk.pc = "done" /\ FirstUnsupported(blk.items, i)) =>
            /\ mach.exc # "none"
            /\ blk.zz = RefExpand(Zeros64, SubSeq(blk.items, 1, i - 1))

\* The DC table has the codes 00, 01, 10: a segment whose first byte starts
\* with the bits 11 (and is no 0xFF) opens the first data unit with no code
NoDcCode == view[1] \in 192..254

\* C13: a bit sequence that matches no code of the table is a decode
\* failure, never a coefficient: decodeDataUnit does not complete the data
\* unit with a value put in its place, and its caller sees the failure.
C13_NoCodeIsFailure ==
    ~(/\ NoDcCode
      /\ scan.after = "unit" /\ scan.mcuIndex = 0 /\ scan.u = 2)

(***************************************************************************)
(* Specification SpecInsert: initDecoder(bits), then insertCode calls with *)
(* any lengths and values, on a HuffTree, a HuffArray and a HuffTable.     *)
(***************************************************************************)
MaxDepth == 3
MaxInserts == 3

InsLengths == (1..MaxDepth) \cup {TABLE_LENGTH + 1}
InsValues == {0, 7}

InsBits ==
    { [i \in 1..NUM_HUFFMAN_LENGTHS |->
          IF i = 1 THEN a ELSE IF i = 2 THEN b ELSE IF i = 3 THEN c ELSE 0] :
      a \in 0..1, b \in 0..2, c \in 0..1 }

NoCounts == [i \in InsLengths |-> 0]

InitInsert ==
    /\ view = <<>> /\ mach = IdleMach /\ mode = "bit" /\ last = IdleLast
    /\ pos = 0 /\ ext = IdleExt /\ huff = IdleHuff /\ scan = IdleScan
    /\ \E bits \in InsBits :
          blk = [pc |-> "init", bits |-> bits, n |-> 0,
                 tree |-> NewTree, arr |-> NewArray, tab |-> NewTable,
                 len |-> 0, val |-> 0,
                 okTree |-> TRUE, okArr |-> TRUE, okTab |-> TRUE,
                 treeBefore |-> NewTree, arrBefore |-> NewArray,
                 tabBefore |-> NewTable,
                 cntTree |-> NoCounts, cntArr |-> NoCounts, cntTab |-> NoCounts,
                 cntTreeBefore |-> NoCounts, cntArrBefore |-> NoCounts,
                 cntTabBefore |-> NoCounts]

\* decoder.initDecoder(bits) on the three decoders
InsInitDecoder ==
    /\ blk.pc = "init"
    /\ blk' = [blk EXCEPT !.pc = "insert",
                          !.arr = arrInitDecoder(blk.arr, blk.bits),
                          !.tab = tabInitDecoder(blk.tab, blk.bits)]
    /\ UNCHANGED <<readerVars, extVars, huffVars, scanVars>>

Count(cnt, len, ok) == IF ok THEN [cnt EXCEPT ![len] = @ + 1] ELSE cnt

\* decoder.insertCode(len, val) on the three decoders; cntX[l] counts the
\* calls with length l that returned true
InsInsertCode ==
    /\ blk.pc \in {"insert", "inserted"} /\ blk.n < MaxInserts
    /\ \E len \in InsLengths : \E val \in InsValues :
          blk' = [blk EXCEPT
                    !.pc = "inserted", !.n = @ + 1, !.len = len, !.val = val,
                    !.treeBefore = blk.tree, !.arrBefore = blk.arr,
                    !.tabBefore = blk.tab,
                    !.cntTreeBefore = blk.cntTree, !.cntArrBefore = blk.cntArr,
                    !.cntTabBefore = blk.cntTab,
                    !.tree = treeInsertCode(blk.tree, <<>>, len, val).t,
                    !.okTree = treeInsertCode(blk.tree, <<>>, len, val).ok,
                    !.cntTree = Count(@, len, treeInsertCode(blk.tree, <<>>, len, val).ok),
                    !.arr = arrInsertCode(blk.arr, len, val).a,
                    !.okArr = arrInsertCode(blk.arr, len, val).ok,
                    !.cntArr = Count(@, len, arrInsertCode(blk.arr, len, val).ok),
                    !.tab = tabInsertCode(blk.tab, len, val).h,
                    !.okTab = tabInsertCode(blk.tab, len, val).ok,
                    !.cntTab = Count(@, len, tabInsertCode(blk.tab, len, val).ok)]
    /\ UNCHANGED <<readerVars, extVars, huffVars, scanVars>>

NextInsert == InsInitDecoder \/ InsInsertCode
SpecInsert == InitInsert /\ [][NextInsert]_vars

\* the call must be turned away: the length is over 16, or bits[len] codes of
\* that length are in the decoder already
Refused(cntBefore) ==
    blk.len > NUM_HUFFMAN_LENGTHS \/ cntBefore[blk.len] >= blk.bits[blk.len]

Conforms(ok, cntBefore, dec, decBefore) ==
    /\ ok = ~Refused(cntBefore)
    /\ Refused(cntBefore) => dec = decBefore

\* C14: for every decoder variant insertCode(length, value) returns false and
\* leaves the decoder as it was when length is over 16 or when bits[length]
\* codes of that length are inserted already, and returns true otherwise.
C14_InsertCodeContract ==
    blk.pc = "inserted" =>
        /\ Conforms(blk.okTab, blk.cntTabBefore, blk.tab, blk.tabBefore)
        /\ Conforms(blk.okArr, blk.cntArrBefore, blk.arr, blk.arrBefore)
        /\ Conforms(blk.okTree, blk.cntTreeBefore, blk.tree, blk.treeBefore)

\* the part of C14 the lookup table keeps
C14_TableConforms ==
    blk.pc = "inserted" =>
        Conforms(blk.okTab, blk.cntTabBefore, blk.tab, blk.tabBefore)

\* Reference for the tree: the values stored, the slots of depth L that are
\* free (no node on the way from the root to the slot, the slot included,
\* holds a value), and the leftmost of a set of slots of one depth
Stored(t) == { <<p, t.data[p]>> : p \in { q \in t.nodes : t.data[q] # Undefined } }

Holds(t, p) == p \in t.nodes /\ t.data[p] # Undefined

Free(t, L) ==
    { p \in [1..L -> {0, 1}] : \A j \in 0..L : ~Holds(t, SubSeq(p, 1, j)) }

PathNat(p) == BitsToNat(p)

Leftmost(S) == CHOOSE p \in S : \A q \in S : PathNat(p) <= PathNat(q)

C15_WitnessFull ==
    /\ blk.pc = "inserted" /\ blk.n = 3 /\ blk.len = 1 /\ ~blk.okTree
    /\ Stored(blk.tree) = {<<(<<0>>), 7>>, <<(<<1>>), 0>>}

(***************************************************************************)
(* Specification SpecCanon: HuffArray.initDecoder(bits) on histograms with *)
(* codes of the lengths 1, 2, 3 and 16, prefix-free or not, and on the     *)
(* histogram of testHuffmanDecoder.                                        *)
(***************************************************************************)
MaxCount == 2

CanonBits ==
    { [i \in 1..NUM_HUFFMAN_LENGTHS |->
          IF i = 1 THEN a ELSE IF i = 2 THEN b ELSE IF i = 3 THEN c
          ELSE IF i = NUM_HUFFMAN_LENGTHS THEN d ELSE 0] :
      a \in 0..MaxCount, b \in 0..MaxCount, c \in 0..MaxCount, d \in 0..MaxCount }
    \cup {TestBits}

InitCanon ==
    /\ view = <<>> /\ mach = IdleMach /\ mode = "bit" /\ last = IdleLast
    /\ pos = 0 /\ ext = IdleExt /\ huff = IdleHuff /\ scan = IdleScan
    /\ \E bits \in CanonBits : blk = [pc |-> "bits", bits |-> bits, arr |-> NewArray]

\* decoder.initDecoder(bits) on a new HuffArray
CanonInitDecoder ==
    /\ blk.pc = "bits"
    /\ blk' = [blk EXCEPT !.pc = "done", !.arr = arrInitDecoder(blk.arr, blk.bits)]
    /\ UNCHANGED <<readerVars, extVars, huffVars, scanVars>>

NextCanon == CanonInitDecoder
SpecCanon == InitCanon /\ [][NextCanon]_vars

\* some prefix code has this histogram (Kraft's inequality)
Kraft(bits) ==
    Sum([i \in 1..NUM_HUFFMAN_LENGTHS |-> bits[i] * 2 ^ (NUM_HUFFMAN_LENGTHS - i)],
        NUM_HUFFMAN_LENGTHS) <= 2 ^ NUM_HUFFMAN_LENGTHS

\* C16: HuffArray.initDecoder(bits) generates the canonical codes: sum(bits)
\* entries; huffsize lists the lengths in non-decreasing order, bits[i]
\* times i, and ends with the sentinel 0; the first code is 0, the code after
\* a code of the same length is that code plus 1, and the first code of a
\* greater length is the code before it plus 1, shifted left by the
\* difference of the lengths. When bits satisfies Kraft's inequality every
\* code fits in its length and no code is a prefix of another.
C16_CanonicalCodes ==
    blk.pc = "done" =>
        LET n == Sum(blk.bits, NUM_HUFFMAN_LENGTHS)
            size == blk.arr.huffsize
            code == blk.arr.huffcode
        IN  /\ Len(code) = n /\ Len(size) = n + 1 /\ size[n + 1] = 0
            /\ \A k \in 1..n : size[k] \in 1..NUM_HUFFMAN_LENGTHS
            /\ \A i \in 1..NUM_HUFFMAN_LENGTHS :
                   Cardinality({k \in 1..n : size[k] = i}) = blk.bits[i]
            /\ \A k \in 1..(n - 1) : size[k] <= size[k + 1]
            /\ n > 0 => code[1] = 0
            /\ \A k \in 1..(n - 1) :
                   code[k + 1] = (code[k] + 1) * 2 ^ (size[k + 1] - size[k])
            /\ Kraft(blk.bits) =>
                   /\ \A k \in 1..n : code[k] \in 0..(2 ^ size[k] - 1)
                   /\ \A j \in 1..n : \A k \in (j + 1)..n :
                          code[k] \div (2 ^ (size[k] - size[j])) # code[j]

\* codes 0, 100, 1010000000000000, 1010000000000001
C16_Witness ==
    /\ blk.pc = "done" /\ Kraft(blk.bits)
    /\ blk.arr.huffsize = <<1, 3, 16, 16, 0>>
    /\ blk.arr.huffcode = <<0, 4, 40960, 40961>>

(***************************************************************************)
(* Dequantization and reordering (F.2.1.4): JavaScript arrays start at 0   *)
(* and are sequences here, so coefficient i is coeff[i + 1].               *)
(***************************************************************************)
DATA_UNIT_SIZE == 8

ZIGZAG ==
    << 0,  1,  5,  6, 14, 15, 27, 28,
       2,  4,  7, 13, 16, 26, 29, 42,
       3,  8, 12, 17, 25, 30, 41, 43,
       9, 11, 18, 24, 31, 40, 44, 53,
      10, 19, 23, 32, 39, 45, 52, 54,
      20, 22, 33, 38, 46, 51, 55, 60,
      21, 34, 37, 47, 50, 56, 59, 61,
      35, 36, 48, 49, 57, 58, 62, 63 >>

\* the product of a number and undefined
NaN == -2000000

\* array[i] of a JavaScript array, undefined outside it
Elem(array, i) ==
    IF i \in 0..(Len(array) - 1) THEN array[i + 1] ELSE Undefined

Times(a, b) == IF a \in {Undefined, NaN} \/ b \in {Undefined, NaN} THEN NaN ELSE a * b

\* reorder that writes reordered[ZIGZAG[i]] = coeff[i]
reorderInverse(coeff) ==
    [i \in 1..Len(coeff) |->
        IF \E j \in 1..Len(ZIGZAG) : ZIGZAG[j] = i - 1 /\ j <= Len(coeff)
        THEN coeff[CHOOSE j \in 1..Len(ZIGZAG) : ZIGZAG[j] = i - 1]
        ELSE Undefined]

\* reordered[i] = coeff[ZIGZAG[i]] on a new array of coeff.length entries
reorder(coeff) ==
    [i \in 1..Len(coeff) |-> Elem(coeff, Elem(ZIGZAG, i - 1))]

\* dequantize that multiplies by the table entry of the next position
dequantizeNext(zigzagCoeff, quantTable) ==
    [i \in 1..Len(zigzagCoeff) |-> Times(zigzagCoeff[i], Elem(quantTable, i))]

\* zigzagCoeff[i] = zigzagCoeff[i] * quantTable[i], in place; the result is
\* zigzagCoeff after the call
dequantize(zigzagCoeff, quantTable) ==
    [i \in 1..Len(zigzagCoeff) |-> Times(zigzagCoeff[i], Elem(quantTable, i - 1))]

(***************************************************************************)
(* Specification SpecBlock: decodeDataUnit after the entropy decoding, on  *)
(* a block of coefficients and a quantization table: dequantize, reorder,  *)
(* and reorder once more on the result.                                    *)
(***************************************************************************)
MaxAmp == 2

\* The block and the quantization table of testDequantize
TestCoeffs ==
    << -26, -3, -6,  2,  2, -1,  0,  0,
         0, -2, -4,  1,  1,  0,  0,  0,
        -3,  1,  5, -1, -1,  0,  0,  0,
        -3,  1,  2, -1,  0,  0,  0,  0,
         1,  0,  0,  0,  0,  0,  0,  0,
         0,  0,  0,  0,  0,  0,  0,  0,
         0,  0,  0,  0,  0,  0,  0,  0,
         0,  0,  0,  0,  0,  0,  0,  0 >>

TestQuant ==
    << 16,  11,  10,  16,  24,  40,  51,  61,
       12,  12,  14,  19,  26,  58,  60,  55,
       14,  13,  16,  24,  40,  57,  69,  56,
       14,  17,  22,  29,  51,  87,  80,  62,
       18,  22,  37,  56,  68, 109, 103,  77,
       24,  35,  55,  64,  81, 104, 113,  92,
       49,  64,  78,  87, 103, 121, 120, 101,
       72,  92,  95,  98, 112, 100, 103,  99 >>

TestDequantized ==
    << -416, -33, -60,  32,  48, -40,   0,   0,
          0, -24, -56,  19,  26,   0,   0,   0,
        -42,  13,  80, -24, -40,   0,   0,   0,
        -42,  17,  44, -29,   0,   0,   0,   0,
         18,   0,   0,   0,   0,   0,   0,   0,
          0,   0,   0,   0,   0,   0,   0,   0,
          0,   0,   0,   0,   0,   0,   0,   0,
          0,   0,   0,   0,   0,   0,   0,   0 >>

\* The block of testReorder in zig-zag order (TestCoeffs is its natural order)
TestZigzag ==
    << -26, -3,  0, -3, -2, -6,  2, -4,  1, -3,  1,  1,  5,  1,  2, -1,
         1, -1,  2,  0,  0,  0,  0,  0, -1, -1,  0,  0,  0,  0,  0,  0,
         0,  0,  0,  0,  0,  0,  0,  0,  0,  0,  0,  0,  0,  0,  0,  0,
         0,  0,  0,  0,  0,  0,  0,  0,  0,  0,  0,  0,  0,  0,  0,  0 >>

Ramp == [i \in 1..64 |-> i - 1]

\* blocks with one coefficient, the ramp 0..63 and its negative, the blocks
\* of the tests
BlkCoeffs ==
    { [i \in 1..64 |-> IF i = k THEN a ELSE 0] :
        k \in 1..64, a \in (-MaxAmp)..MaxAmp }
    \cup {Ramp, [i \in 1..64 |-> -Ramp[i]], TestCoeffs, TestZigzag}

BlkQuants ==
    {TestQuant, [i \in 1..64 |-> 1], [i \in 1..64 |-> 65 - i], [i \in 1..64 |-> 255]}

InitBlock ==
    /\ view = <<>> /\ mach = IdleMach /\ mode = "bit" /\ last = IdleLast
    /\ pos = 0 /\ ext = IdleExt /\ huff = IdleHuff /\ scan = IdleScan
    /\ \E c \in BlkCoeffs : \E q \in BlkQuants :
          blk = [pc |-> "decoded", decoded |-> c, quant |-> q, quantTable |-> q,
                 zigzagCoeff |-> c, reordered |-> <<>>, again |-> <<>>]

\* dequantize(zigzagCoeff, quantTable)
BlkDequantize ==
    /\ blk.pc = "decoded"
    /\ blk' = [blk EXCEPT !.pc = "dequantized",
                          !.zigzagCoeff = dequantize(blk.zigzagCoeff, blk.quantTable)]
    /\ UNCHANGED <<readerVars, extVars, huffVars, scanVars>>

\* reordered = reorder(zigzagCoeff)
BlkReorder ==
    /\ blk.pc = "dequantized"
    /\ blk' = [blk EXCEPT !.pc = "reordered", !.reordered = reorder(blk.zigzagCoeff)]
    /\ UNCHANGED <<readerVars, extVars, huffVars, scanVars>>

\* reorder(reordered)
BlkReorderAgain ==
    /\ blk.pc = "reordered"
    /\ blk' = [blk EXCEPT !.pc = "twice", !.again = reorder(blk.reordered)]
    /\ UNCHANGED <<readerVars, extVars, huffVars, scanVars>>

NextBlock == BlkDequantize \/ BlkReorder \/ BlkReorderAgain
SpecBlock == InitBlock /\ [][NextBlock]_vars

\* C17: dequantize(coeffs, quantTable) is pointwise multiplication: after
\* the call coeffs[i] is the old coeffs[i] times quantTable[i] for every i in
\* 0..63, and the quantization table is unchanged; the block of
\* testDequantize gives -416, -33, -60, 32, ...
C17_DequantizePointwise ==
    blk.pc = "dequantized" =>
        /\ Len(blk.zigzagCoeff) = 64
        /\ \A i \in 0..63 :
               blk.zigzagCoeff[i + 1] = blk.decoded[i + 1] * blk.quant[i + 1]
        /\ blk.quantTable = blk.quant
        /\ (blk.decoded = TestCoeffs /\ blk.quant = TestQuant) =>
               blk.zigzagCoeff = TestDequantized

C17_Witness ==
    /\ blk.pc = "dequantized"
    /\ blk.decoded = TestCoeffs /\ blk.quant = TestQuant
    /\ blk.zigzagCoeff[1] = -416 /\ blk.zigzagCoeff[33] = 18

\* C18: reorder undoes the zig-zag order by a fixed permutation: ZIGZAG is a
\* bijection on 0..63, result[p] = input[ZIGZAG[p]] for every natural
\* position p, so every input coefficient appears exactly once in the
\* result; the map is not an involution: reorder applied twice does not give
\* back every block (it changes every block of 64 different coefficients).
C18_ReorderPermutation ==
    /\ Len(ZIGZAG) = 64
    /\ \A z \in 0..63 : Cardinality({p \in 0..63 : ZIGZAG[p + 1] = z}) = 1
    /\ blk.pc \in {"reordered", "twice"} =>
        /\ Len(blk.reordered) = 64
        /\ \A p \in 0..63 : blk.reordered[p + 1] = blk.zigzagCoeff[ZIGZAG[p + 1] + 1]
        /\ \A z \in 0..63 :
              Cardinality({p \in 0..63 : ZIGZAG[p + 1] = z
                                          /\ blk.reordered[p + 1] = blk.zigzagCoeff[z + 1]}) = 1
        /\ (blk.decoded = TestZigzag /\ blk.quant[1] = 1 /\ blk.quant[64] = 1) =>
              blk.reordered = TestCoeffs
    /\ (blk.pc = "twice" /\ Cardinality({blk.reordered[i] : i \in 1..64}) = 64) =>
          blk.again # blk.reordered

C18_Witness ==
    /\ blk.pc = "twice" /\ blk.decoded = Ramp /\ blk.quant[1] = 1 /\ blk.quant[64] = 1
    /\ blk.reordered = ZIGZAG
    /\ blk.again[3] = 15

(***************************************************************************)
(* JavaScript numbers: IEEE-754 binary64, computed exactly. A number is    *)
(* (-1)^s * M * 2^e, its significand M a natural number of 53 bits kept as *)
(* limbs of LimbBits bits, the least significant first (<<>> is 0). The    *)
(* numbers of the IDCT stay far from the subnormal range and from          *)
(* overflow; the sign of a zero is not kept.                               *)
(***************************************************************************)
LimbBits == 14
Base == 2 ^ LimbBits
Precision == 53

RECURSIVE BigNorm(_)
BigNorm(a) ==
    IF Len(a) > 0 /\ a[Len(a)] = 0 THEN BigNorm(SubSeq(a, 1, Len(a) - 1)) ELSE a

Limb(a, i) == IF i \in 1..Len(a) THEN a[i] ELSE 0

Max(a, b) == IF a > b THEN a ELSE b
Min(a, b) == IF a < b THEN a ELSE b

\* limbs of the column sums cols, carries propagated
RECURSIVE Carry(_, _, _)
Carry(cols, i, c) ==
    IF i > Len(cols)
    THEN IF c = 0 THEN <<>> ELSE <<c % Base>> \o Carry(cols, i, c \div Base)
    ELSE <<(cols[i] + c) % Base>> \o Carry(cols, i + 1, (cols[i] + c) \div Base)

BigFromNat(n) == BigNorm(Carry(<<n>>, 1, 0))

RECURSIVE BigToNat(_)
BigToNat(a) == IF Len(a) = 0 THEN 0 ELSE Head(a) + Base * BigToNat(Tail(a))

BigAdd(a, b) ==
    BigNorm(Carry([k \in 1..Max(Len(a), Len(b)) |-> Limb(a, k) + Limb(b, k)], 1, 0))

\* a - b for a >= b
RECURSIVE Borrow(_, _, _, _)
Borrow(a, b, i, br) ==
    IF i > Len(a) THEN <<>>
    ELSE <<(a[i] - Limb(b, i) - br) % Base>>
         \o Borrow(a, b, i + 1, IF a[i] - Limb(b, i) - br < 0 THEN 1 ELSE 0)

BigSub(a, b) == BigNorm(Borrow(a, b, 1, 0))

RECURSIVE BigLessFrom(_, _, _)
BigLessFrom(a, b, i) ==
    IF i = 0 THEN FALSE
    ELSE IF Limb(a, i) # Limb(b, i) THEN Limb(a, i) < Limb(b, i)
    ELSE BigLessFrom(a, b, i - 1)

BigLess(a, b) == BigLessFrom(a, b, Max(Len(a), Len(b)))

\* the product of two significands (four limbs each)
BigMul(a, b) ==
    BigNorm(Carry([k \in 1..(Len(a) + Len(b) - 1) |->
                      Sum([i \in 1..Len(a) |-> a[i] * Limb(b, k + 1 - i)], Len(a))],
                  1, 0))

RECURSIVE NatBits(_)
NatBits(n) == IF n = 0 THEN 0 ELSE 1 + NatBits(n \div 2)

\* the number of bits of a (no leading zero limb)
BigBits(a) == IF Len(a) = 0 THEN 0 ELSE LimbBits * (Len(a) - 1) + NatBits(a[Len(a)])

BigShl(a, n) ==
    BigNorm([k \in 1..(Len(a) + (n \div LimbBits) + 1) |->
                ((Limb(a, k - (n \div LimbBits)) * 2 ^ (n % LimbBits)) % Base)
                + (Limb(a, k - (n \div LimbBits) - 1)
                   \div 2 ^ (LimbBits - (n % LimbBits)))])

BigShr(a, n) ==
    BigNorm([k \in 1..Max(Len(a) - (n \div LimbBits), 0) |->
                (Limb(a, k + (n \div LimbBits)) \div 2 ^ (n % LimbBits))
                + ((Limb(a, k + (n \div LimbBits) + 1) % 2 ^ (n % LimbBits))
                   * 2 ^ (LimbBits - (n % LimbBits)))])

\* bit i of a, bit 0 the least significant
BigBit(a, i) == (Limb(a, (i \div LimbBits) + 1) \div 2 ^ (i % LimbBits)) % 2

\* the n low bits of a are 0
BigLowZero(a, n) ==
    /\ \A k \in 1..(n \div LimbBits) : Limb(a, k) = 0
    /\ (Limb(a, (n \div LimbBits) + 1) % 2 ^ (n % LimbBits)) = 0

\* a / 2^n rounded to the nearest integer, ties to even (n >= 1)
RoundNearestEven(a, n) ==
    IF BigBit(a, n - 1) = 1 /\ (~BigLowZero(a, n - 1) \/ BigBit(a, n) = 1)
    THEN BigAdd(BigShr(a, n), <<1>>)
    ELSE BigShr(a, n)

Zero == [s |-> 0, m |-> <<>>, e |-> 0]

\* rounding carried the significand to 2^53
Renorm(s, r, e) ==
    IF BigBits(r) > Precision THEN [s |-> s, m |-> BigShr(r, 1), e |-> e + 1]
    ELSE [s |-> s, m |-> r, e |-> e]

Normal(s, a, e, bits) ==
    IF bits = 0 THEN Zero
    ELSE IF bits <= Precision
    THEN [s |-> s, m |-> BigShl(a, Precision - bits), e |-> e - (Precision - bits)]
    ELSE Renorm(s, RoundNearestEven(a, bits - Precision), e + (bits - Precision))

\* the number nearest to (-1)^s * a * 2^e, a any natural number
Round53(s, a, e) == Normal(s, a, e, BigBits(a))

FromInt(k) ==
    IF k < 0 THEN Round53(1, BigFromNat(-k), 0) ELSE Round53(0, BigFromNat(k), 0)

\* x * y
fmul(x, y) ==
    IF x.m = <<>> \/ y.m = <<>> THEN Zero
    ELSE Round53((x.s + y.s) % 2, BigMul(x.m, y.m), x.e + y.e)

\* the sum of (-1)^sa * a * 2^e and (-1)^sb * b * 2^e
AddAligned(sa, a, sb, b, e) ==
    IF sa = sb THEN Round53(sa, BigAdd(a, b), e)
    ELSE IF BigLess(a, b) THEN Round53(sb, BigSub(b, a), e)
    ELSE Round53(sa, BigSub(a, b), e)

\* x + y; an operand below 2^-7 units in the last place of the other one
\* does not change it
fadd(x, y) ==
    IF x.m = <<>> THEN y
    ELSE IF y.m = <<>> THEN x
    ELSE IF x.e - y.e > 60 THEN x
    ELSE IF y.e - x.e > 60 THEN y
    ELSE AddAligned(x.s, BigShl(x.m, x.e - Min(x.e, y.e)),
                    y.s, BigShl(y.m, y.e - Min(x.e, y.e)), Min(x.e, y.e))

\* Long division by d, one quotient bit for each of i steps; st holds the
\* quotient and the remainder so far
RECURSIVE DivStep(_, _, _)
RECURSIVE DivBit(_, _, _, _)
DivStep(d, i, st) ==
    IF i = 0 THEN st ELSE DivBit(d, i, st.q, BigShl(st.r, 1))

DivBit(d, i, q, r) ==
    IF BigLess(r, d) THEN DivStep(d, i - 1, [q |-> BigShl(q, 1), r |-> r])
    ELSE DivStep(d, i - 1, [q |-> BigAdd(BigShl(q, 1), <<1>>), r |-> BigSub(r, d)])

DivStart(a, d) ==
    IF BigLess(a, d) THEN [q |-> <<>>, r |-> a] ELSE [q |-> <<1>>, r |-> BigSub(a, d)]

\* the quotient with a last bit that tells whether the division left a rest
Sticky(qr) == BigAdd(BigShl(qr.q, 1), IF qr.r = <<>> THEN <<>> ELSE <<1>>)

\* x / y, y not 0: the quotient of the significands to 2 * HalfSteps bits
\* after the binary point, then rounded
HalfSteps == 28

fdiv(x, y) ==
    IF x.m = <<>> THEN Zero
    ELSE IF BigLowZero(y.m, Precision - 1)      \* y is a power of 2
    THEN [s |-> (x.s + y.s) % 2, m |-> x.m, e |-> x.e - y.e - (Precision - 1)]
    ELSE Round53((x.s + y.s) % 2,
                 Sticky(DivStep(y.m, HalfSteps,
                                DivStep(y.m, HalfSteps, DivStart(x.m, y.m)))),
                 x.e - y.e - 2 * HalfSteps - 1)

\* Math.round(x): floor(x + 1/2), for |x| < 2^31
MathRound(x) ==
    IF x.m = <<>> \/ -x.e > 4 * Precision THEN 0
    ELSE IF x.e >= 0 THEN (IF x.s = 0 THEN 1 ELSE -1) * BigToNat(BigShl(x.m, x.e))
    ELSE IF x.s = 0
    THEN BigToNat(BigShr(BigAdd(x.m, BigShl(<<1>>, -x.e - 1)), -x.e))
    ELSE -BigToNat(BigShr(BigAdd(x.m, BigSub(BigShl(<<1>>, -x.e - 1), <<1>>)), -x.e))

(***************************************************************************)
(* IDCT (F.2.1.5): idct and idctCached in floating point, idctChenWang in  *)
(* 32-bit integers. Sample (x, y) of a block is block[8 * y + x + 1].      *)
(***************************************************************************)
\* Math.SQRT2, the number nearest to the square root of 2
SQRT2 == [s |-> 0, m |-> <<15309, 6652, 2534, 1448>>, e |-> -52]

One == FromInt(1)

INV_SQRT2 == fdiv(One, SQRT2)

\* Math.cos((n * Math.PI) / 16) for the n = (2 * i + 1) * j with i, j in
\* 0..7: CosValues[k] is the cosine for n = CosArgs[k], as the numbers
\* nearest to the cosines of the arguments
CosArgs ==
    <<0, 1, 2, 3, 4, 5, 6, 7, 9, 10, 11, 12,
      13, 14, 15, 18, 20, 21, 22, 25, 26, 27, 28, 30,
      33, 35, 36, 39, 42, 44, 45, 49, 52, 54, 55, 60,
      63, 65, 66, 75, 77, 78, 90, 91, 105>>

CosValues ==
    << [s |-> 0, m |-> <<0, 0, 0, 1024>>, e |-> -52],
       [s |-> 0, m |-> <<7344, 16349, 10620, 2008>>, e |-> -53],
       [s |-> 0, m |-> <<3398, 15562, 1724, 1892>>, e |-> -53],
       [s |-> 0, m |-> <<8611, 9274, 13922, 1702>>, e |-> -53],
       [s |-> 0, m |-> <<15309, 6652, 2534, 1448>>, e |-> -53],
       [s |-> 0, m |-> <<10441, 9913, 13235, 1137>>, e |-> -53],
       [s |-> 0, m |-> <<10596, 6842, 7722, 1567>>, e |-> -54],
       [s |-> 0, m |-> <<9741, 12710, 2947, 1598>>, e |-> -55],
       [s |-> 1, m |-> <<9736, 12710, 2947, 1598>>, e |-> -55],
       [s |-> 1, m |-> <<10594, 6842, 7722, 1567>>, e |-> -54],
       [s |-> 1, m |-> <<10438, 9913, 13235, 1137>>, e |-> -53],
       [s |-> 1, m |-> <<15308, 6652, 2534, 1448>>, e |-> -53],
       [s |-> 1, m |-> <<8612, 9274, 13922, 1702>>, e |-> -53],
       [s |-> 1, m |-> <<3398, 15562, 1724, 1892>>, e |-> -53],
       [s |-> 1, m |-> <<7344, 16349, 10620, 2008>>, e |-> -53],
       [s |-> 1, m |-> <<3399, 15562, 1724, 1892>>, e |-> -53],
       [s |-> 1, m |-> <<15310, 6652, 2534, 1448>>, e |-> -53],
       [s |-> 1, m |-> <<10440, 9913, 13235, 1137>>, e |-> -53],
       [s |-> 1, m |-> <<10605, 6842, 7722, 1567>>, e |-> -54],
       [s |-> 0, m |-> <<9740, 12710, 2947, 1598>>, e |-> -55],
       [s |-> 0, m |-> <<10599, 6842, 7722, 1567>>, e |-> -54],
       [s |-> 0, m |-> <<10437, 9913, 13235, 1137>>, e |-> -53],
       [s |-> 0, m |-> <<15307, 6652, 2534, 1448>>, e |-> -53],
       [s |-> 0, m |-> <<3396, 15562, 1724, 1892>>, e |-> -53],
       [s |-> 0, m |-> <<7344, 16349, 10620, 2008>>, e |-> -53],
       [s |-> 0, m |-> <<8613, 9274, 13922, 1702>>, e |-> -53],
       [s |-> 0, m |-> <<15310, 6652, 2534, 1448>>, e |-> -53],
       [s |-> 0, m |-> <<9757, 12710, 2947, 1598>>, e |-> -55],
       [s |-> 1, m |-> <<10597, 6842, 7722, 1567>>, e |-> -54],
       [s |-> 1, m |-> <<15301, 6652, 2534, 1448>>, e |-> -53],
       [s |-> 1, m |-> <<8610, 9274, 13922, 1702>>, e |-> -53],
       [s |-> 1, m |-> <<7346, 16349, 10620, 2008>>, e |-> -53],
       [s |-> 1, m |-> <<15305, 6652, 2534, 1448>>, e |-> -53],
       [s |-> 1, m |-> <<10609, 6842, 7722, 1567>>, e |-> -54],
       [s |-> 1, m |-> <<9730, 12710, 2947, 1598>>, e |-> -55],
       [s |-> 0, m |-> <<15300, 6652, 2534, 1448>>, e |-> -53],
       [s |-> 0, m |-> <<7344, 16349, 10620, 2008>>, e |-> -53],
       [s |-> 0, m |-> <<7346, 16349, 10620, 2008>>, e |-> -53],
       [s |-> 0, m |-> <<3398, 15562, 1724, 1892>>, e |-> -53],
       [s |-> 1, m |-> <<10434, 9913, 13235, 1137>>, e |-> -53],
       [s |-> 1, m |-> <<8609, 9274, 13922, 1702>>, e |-> -53],
       [s |-> 1, m |-> <<3395, 15562, 1724, 1892>>, e |-> -53],
       [s |-> 0, m |-> <<10591, 6842, 7722, 1567>>, e |-> -54],
       [s |-> 0, m |-> <<10434, 9913, 13235, 1137>>, e |-> -53],
       [s |-> 1, m |-> <<9750, 12710, 2947, 1598>>, e |-> -55] >>

MathCos(n) == CosValues[CHOOSE k \in 1..Len(CosArgs) : CosArgs[k] = n]

\* initIDCTCache: idctCache[i][j], i and j counted from 0
idctCache ==
    [i \in 0..(DATA_UNIT_SIZE - 1) |->
        [j \in 0..(DATA_UNIT_SIZE - 1) |-> MathCos(((2 * i) + 1) * j)]]

\* C without the factor for the first row and column
CNoScale(val) == One

C(val) == IF val = 0 THEN INV_SQRT2 ELSE One

\* The loops over v and u of idct for the sample (x, y): st holds the loop
\* variable and sum. A coefficient 0 adds a zero, which leaves sum as it is
RECURSIVE idctLoopU(_, _, _, _, _)
idctLoopU(coeffs, x, y, v, st) ==
    IF ~(st.u < DATA_UNIT_SIZE) THEN st.sum
    ELSE idctLoopU(coeffs, x, y, v,
            [u |-> st.u + 1,
             sum |-> IF coeffs[v * DATA_UNIT_SIZE + st.u + 1] = 0 THEN st.sum
                     ELSE fadd(st.sum,
                               fmul(fmul(fmul(fmul(C(st.u), C(v)),
                                              FromInt(coeffs[v * DATA_UNIT_SIZE + st.u + 1])),
                                         MathCos(((2 * x) + 1) * st.u)),
                                    MathCos(((2 * y) + 1) * v)))])

RECURSIVE idctLoopV(_, _, _, _)
idctLoopV(coeffs, x, y, st) ==
    IF ~(st.v < DATA_UNIT_SIZE) THEN st.sum
    ELSE idctLoopV(coeffs, x, y,
            [v |-> st.v + 1,
             sum |-> idctLoopU(coeffs, x, y, st.v, [u |-> 0, sum |-> st.sum])])

\* ret[ystart + x] = Math.round(sum / 4)
\* (ret has coeffs.length entries; the loops fill the first 64)
idct(coeffs) ==
    [p \in 1..Len(coeffs) |->
        IF p > DATA_UNIT_SIZE * DATA_UNIT_SIZE THEN Undefined
        ELSE MathRound(fdiv(idctLoopV(coeffs, (p - 1) % DATA_UNIT_SIZE,
                                      (p - 1) \div DATA_UNIT_SIZE,
                                      [v |-> 0, sum |-> Zero]),
                            FromInt(4)))]

\* the same loops of idctCached, the cosines taken from idctCache
RECURSIVE cachedLoopU(_, _, _, _, _)
cachedLoopU(coeffs, x, y, v, st) ==
    IF ~(st.u < DATA_UNIT_SIZE) THEN st.sum
    ELSE cachedLoopU(coeffs, x, y, v,
            [u |-> st.u + 1,
             sum |-> IF coeffs[v * DATA_UNIT_SIZE + st.u + 1] = 0 THEN st.sum
                     ELSE fadd(st.sum,
                               fmul(fmul(fmul(fmul(C(st.u), C(v)),
                                              FromInt(coeffs[v * DATA_UNIT_SIZE + st.u + 1])),
                                         idctCache[x][st.u]),
                                    idctCache[y][v]))])

RECURSIVE cachedLoopV(_, _, _, _)
cachedLoopV(coeffs, x, y, st) ==
    IF ~(st.v < DATA_UNIT_SIZE) THEN st.sum
    ELSE cachedLoopV(coeffs, x, y,
            [v |-> st.v + 1,
             sum |-> cachedLoopU(coeffs, x, y, st.v, [u |-> 0, sum |-> st.sum])])

idctCached(coeffs) ==
    [p \in 1..Len(coeffs) |->
        IF p > DATA_UNIT_SIZE * DATA_UNIT_SIZE THEN Undefined
        ELSE MathRound(fdiv(cachedLoopV(coeffs, (p - 1) % DATA_UNIT_SIZE,
                                        (p - 1) \div DATA_UNIT_SIZE,
                                        [v |-> 0, sum |-> Zero]),
                            FromInt(4)))]

\* 2048 * sqrt(2) * cos(k * pi / 16)
W1 == 2841
W2 == 2676
W3 == 2408
W5 == 1609
W6 == 1108
W7 == 565

\* a << n and a >> n on 32-bit integers, for the values that fit in them
Shl(a, n) == a * 2 ^ n
Sar(a, n) == a \div 2 ^ n

\* no clamp at all
clampIdctNone(val) == val

clampIdct(val) == IF val > 127 THEN 127 ELSE IF val < -128 THEN -128 ELSE val

\* the entries idx + step * i, i in 0..7, of block replaced by out[i + 1]
PutLine(block, idx, step, out) ==
    [p \in 1..Len(block) |->
        IF \E i \in 0..7 : p = idx + step * i + 1
        THEN out[((p - 1 - idx) \div step) + 1]
        ELSE block[p]]

\* idctrow after the shortcut: the four stages on x0..x7
rowStages(x0, x1, x2, x3, x4, x5, x6, x7) ==
    LET \* first stage
        a8 == W7 * (x4 + x5)
        a4 == a8 + (W1 - W7) * x4
        a5 == a8 - (W1 + W7) * x5
        b8 == W3 * (x6 + x7)
        a6 == b8 - (W3 - W5) * x6
        a7 == b8 - (W3 + W5) * x7
        \* second stage
        c8 == x0 + x1
        c0 == x0 - x1
        b1 == W6 * (x3 + x2)
        c2 == b1 - (W2 + W6) * x2
        c3 == b1 + (W2 - W6) * x3
        c1 == a4 + a6
        c4 == a4 - a6
        c6 == a5 + a7
        c5 == a5 - a7
        \* third stage
        d7 == c8 + c3
        d8 == c8 - c3
        d3 == c0 + c2
        d0 == c0 - c2
        d2 == Sar(181 * (c4 + c5) + 128, 8)
        d4 == Sar(181 * (c4 - c5) + 128, 8)
    IN  \* fourth stage
        << Sar(d7 + c1, 8), Sar(d3 + d2, 8), Sar(d0 + d4, 8), Sar(d8 + c6, 8),
           Sar(d8 - c6, 8), Sar(d0 - d4, 8), Sar(d3 - d2, 8), Sar(d7 - c1, 8) >>

\* idctrow(blk, idx): the 1-D IDCT on the row that starts at idx
idctrow(block, idx) ==
    IF /\ Shl(block[4 + idx + 1], 11) = 0 /\ block[6 + idx + 1] = 0
       /\ block[2 + idx + 1] = 0 /\ block[1 + idx + 1] = 0 /\ block[7 + idx + 1] = 0
       /\ block[5 + idx + 1] = 0 /\ block[3 + idx + 1] = 0
    THEN PutLine(block, idx, 1, [i \in 1..8 |-> Shl(block[0 + idx + 1], 3)])
    ELSE PutLine(block, idx, 1,
            rowStages(Shl(block[0 + idx + 1], 11) + 128, Shl(block[4 + idx + 1], 11),
                      block[6 + idx + 1], block[2 + idx + 1], block[1 + idx + 1],
                      block[7 + idx + 1], block[5 + idx + 1], block[3 + idx + 1]))

\* idctcol after the shortcut
colStages(x0, x1, x2, x3, x4, x5, x6, x7) ==
    LET \* first stage
        a8 == W7 * (x4 + x5) + 4
        a4 == Sar(a8 + (W1 - W7) * x4, 3)
        a5 == Sar(a8 - (W1 + W7) * x5, 3)
        b8 == W3 * (x6 + x7) + 4
        a6 == Sar(b8 - (W3 - W5) * x6, 3)
        a7 == Sar(b8 - (W3 + W5) * x7, 3)
        \* second stage
        c8 == x0 + x1
        c0 == x0 - x1
        b1 == W6 * (x3 + x2) + 4
        c2 == Sar(b1 - (W2 + W6) * x2, 3)
        c3 == Sar(b1 + (W2 - W6) * x3, 3)
        c1 == a4 + a6
        c4 == a4 - a6
        c6 == a5 + a7
        c5 == a5 - a7
        \* third stage
        d7 == c8 + c3
        d8 == c8 - c3
        d3 == c0 + c2
        d0 == c0 - c2
        d2 == Sar(181 * (c4 + c5) + 128, 8)
        d4 == Sar(181 * (c4 - c5) + 128, 8)
    IN  \* fourth stage
        << clampIdct(Sar(d7 + c1, 14)), clampIdct(Sar(d3 + d2, 14)),
           clampIdct(Sar(d0 + d4, 14)), clampIdct(Sar(d8 + c6, 14)),
           clampIdct(Sar(d8 - c6, 14)), clampIdct(Sar(d0 - d4, 14)),
           clampIdct(Sar(d3 - d2, 14)), clampIdct(Sar(d7 - c1, 14)) >>

\* idctcol(blk, idx): the 1-D IDCT on the column idx
idctcol(block, idx) ==
    IF /\ Shl(block[idx + 8 * 4 + 1], 8) = 0 /\ block[idx + 8 * 6 + 1] = 0
       /\ block[idx + 8 * 2 + 1] = 0 /\ block[idx + 8 * 1 + 1] = 0
       /\ block[idx + 8 * 7 + 1] = 0 /\ block[idx + 8 * 5 + 1] = 0
       /\ block[idx + 8 * 3 + 1] = 0
    THEN PutLine(block, idx, 8,
            [i \in 1..8 |-> clampIdct(Sar(block[idx + 8 * 0 + 1] + 32, 6))])
    ELSE PutLine(block, idx, 8,
            colStages(Shl(block[idx + 8 * 0 + 1], 8) + 8192, Shl(block[idx + 8 * 4 + 1], 8),
                      block[idx + 8 * 6 + 1], block[idx + 8 * 2 + 1], block[idx + 8 * 1 + 1],
                      block[idx + 8 * 7 + 1], block[idx + 8 * 5 + 1], block[idx + 8 * 3 + 1]))

RECURSIVE idctRows(_, _)
idctRows(coeffs, row) ==
    IF ~(row < 64) THEN coeffs ELSE idctRows(idctrow(coeffs, row), row + 8)

RECURSIVE idctCols(_, _)
idctCols(coeffs, col) ==
    IF ~(col < 8) THEN coeffs ELSE idctCols(idctcol(coeffs, col), col + 1)

\* idctChenWang(coeffs): the rows, then the columns, in place
idctChenWang(coeffs) == idctCols(idctRows(coeffs, 0), 0)

(***************************************************************************)
(* Specification SpecIdct: testIDCT on each of idct, idctCached and        *)
(* idctChenWang, every function on an array of its own with the same       *)
(* coefficients: blocks with the DC coefficient only, and the block of the *)
(* worked example.                                                         *)
(***************************************************************************)
MaxDc == 20

\* The spatial block testIDCT expects for TestDequantized
TestSpatial ==
    << -66, -63, -71, -68, -56, -65, -68, -46,
       -71, -73, -72, -46, -20, -41, -66, -57,
       -70, -78, -68, -17,  20, -14, -61, -63,
       -63, -73, -62,  -8,  27, -14, -60, -58,
       -58, -65, -61, -27,  -6, -40, -68, -50,
       -57, -57, -64, -58, -48, -66, -72, -47,
       -53, -46, -61, -74, -65, -63, -62, -45,
       -47, -34, -53, -74, -60, -47, -47, -41 >>

DcOnly(d) == [i \in 1..64 |-> IF i = 1 THEN d ELSE 0]

\* d / 8 rounded to the nearest integer
RoundEighth(d) == (d + 4) \div 8

\* DC coefficients near 0 and at the ends of the range with a rounded d / 8
\* in -128..127
DcValues == ((-MaxDc)..MaxDc) \cup {-1028, -1027, -516, 516, 1012, 1018, 1019}

IdctBlocks == { DcOnly(d) : d \in DcValues } \cup {TestDequantized}

InitIdct ==
    /\ view = <<>> /\ mach = IdleMach /\ mode = "bit" /\ last = IdleLast
    /\ pos = 0 /\ ext = IdleExt /\ huff = IdleHuff /\ scan = IdleScan
    /\ \E c \in IdctBlocks :
          blk = [pc |-> "idct", coeffs |-> c, naive |-> <<>>, cached |-> <<>>,
                 chenWang |-> <<>>]

\* testIDCT(idct)
TestIdct ==
    /\ blk.pc = "idct"
    /\ blk' = [blk EXCEPT !.pc = "idctCached", !.naive = idct(blk.coeffs)]
    /\ UNCHANGED <<readerVars, extVars, huffVars, scanVars>>

\* testIDCT(idctCached)
TestIdctCached ==
    /\ blk.pc = "idctCached"
    /\ blk' = [blk EXCEPT !.pc = "idctChenWang", !.cached = idctCached(blk.coeffs)]
    /\ UNCHANGED <<readerVars, extVars, huffVars, scanVars>>

\* testIDCT(idctChenWang)
TestIdctChenWang ==
    /\ blk.pc = "idctChenWang"
    /\ blk' = [blk EXCEPT !.pc = "done", !.chenWang = idctChenWang(blk.coeffs)]
    /\ UNCHANGED <<readerVars, extVars, huffVars, scanVars>>

NextIdct == TestIdct \/ TestIdctCached \/ TestIdctChenWang
SpecIdct == InitIdct /\ [][NextIdct]_vars

Uniform(block, val) == block = [i \in 1..64 |-> val]

IsDcOnly == \A i \in 2..64 : blk.coeffs[i] = 0

InDcRange == IsDcOnly /\ RoundEighth(blk.coeffs[1]) \in -128..127

\* C19: for a block with the DC coefficient d only, every IDCT variant
\* returns the uniform block of d / 8 rounded to the nearest integer,
\* floor(d / 8 + 1/2), for every d for which that value is in -128..127;
\* d = 6 gives all 1 and d = -6 all -1.
C19_DcOnlyUniform ==
    InDcRange =>
        /\ blk.naive # <<>> => Uniform(blk.naive, RoundEighth(blk.coeffs[1]))
        /\ blk.cached # <<>> => Uniform(blk.cached, RoundEighth(blk.coeffs[1]))
        /\ blk.chenWang # <<>> => Uniform(blk.chenWang, RoundEighth(blk.coeffs[1]))

\* the parts of C19 that hold: idctChenWang on every d, every variant on the
\* d for which d / 8 is not half-way between two integers, 6 and -6 among them
C19_ChenWangDcOnly ==
    (InDcRange /\ blk.chenWang # <<>>) =>
        Uniform(blk.chenWang, RoundEighth(blk.coeffs[1]))

C19_FloatOffTies ==
    (InDcRange /\ blk.pc = "done" /\ (blk.coeffs[1] < 0 \/ blk.coeffs[1] % 8 # 4)) =>
        /\ Uniform(blk.naive, RoundEighth(blk.coeffs[1]))
        /\ Uniform(blk.cached, RoundEighth(blk.coeffs[1]))

AbsDiff(a, b) == IF a < b THEN b - a ELSE a - b

\* C20: for the dequantized and reordered block of the worked example
\* (-416, -33, -60, 32, 48, -40, 0, 0, ...) each of idct, idctCached and
\* idctChenWang returns the spatial block -66, -63, -71, -68, -56, -65, -68,
\* -46, ..., and no sample of the Chen-Wang result differs by more than 1
\* from the sample of the floating-point results.
C20_WorkedExample ==
    blk.coeffs = TestDequantized =>
        /\ blk.naive # <<>> => blk.naive = TestSpatial
        /\ blk.cached # <<>> => blk.cached = TestSpatial
        /\ blk.chenWang # <<>> => blk.chenWang = TestSpatial
        /\ blk.pc = "done" =>
              \A i \in 1..64 :
                  /\ AbsDiff(blk.chenWang[i], blk.naive[i]) <= 1
                  /\ AbsDiff(blk.chenWang[i], blk.cached[i]) <= 1

C20_Witness ==
    /\ blk.pc = "done" /\ blk.coeffs = TestDequantized
    /\ blk.naive[1] = -66 /\ blk.cached[2] = -63 /\ blk.chenWang[64] = -41

\* ---------------------------------------------------------------------
\* levelShift (src/jsjpeg.js:777-782): in place, block[i] += 128

\* a levelShift that leaves the first sample alone
levelShiftFromSecond(block) ==
    [i \in 1..Len(block) |-> IF i = 1 THEN block[i] ELSE block[i] + 128]

\* number + 128; undefined + 128 and NaN + 128 are NaN
Plus128(a) == IF a \in {Undefined, NaN} THEN NaN ELSE a + 128

levelShift(block) == [i \in 1..Len(block) |-> Plus128(block[i])]

\* The block testLevelShift expects for TestSpatial
TestShifted ==
    << 62,  65,  57,  60,  72,  63,  60,  82,
       57,  55,  56,  82, 108,  87,  62,  71,
       58,  50,  60, 111, 148, 114,  67,  65,
       65,  55,  66, 120, 155, 114,  68,  70,
       70,  63,  67, 101, 122,  88,  60,  78,
       71,  71,  64,  70,  80,  62,  56,  81,
       75,  82,  67,  54,  63,  65,  66,  83,
       81,  94,  75,  54,  68,  81,  81,  87 >>

MaxShifts == 2

ShiftSamples == {-129, -128, -1, 1, 127, 128}

\* blocks with one sample set, blocks of other lengths, the block of the test
ShiftBlocks ==
    { [i \in 1..64 |-> IF i = k THEN a ELSE 0] : k \in 1..64, a \in ShiftSamples }
    \cup { [i \in 1..n |-> i - 3] : n \in {0, 1, 63, 65} }
    \cup {TestSpatial}

InitShift ==
    /\ view = <<>> /\ mach = IdleMach /\ mode = "bit" /\ last = IdleLast
    /\ pos = 0 /\ ext = IdleExt /\ huff = IdleHuff /\ scan = IdleScan
    /\ \E b \in ShiftBlocks :
          blk = [pc |-> "shift", input |-> b, before |-> b, block |-> b, calls |-> 0]

\* levelShift(block)
ShLevelShift ==
    /\ blk.pc = "shift"
    /\ blk.calls < MaxShifts
    /\ blk' = [blk EXCEPT !.before = blk.block, !.block = levelShift(blk.block),
                          !.calls = blk.calls + 1]
    /\ UNCHANGED <<readerVars, extVars, huffVars, scanVars>>

NextShift == ShLevelShift
SpecShift == InitShift /\ [][NextShift]_vars

\* C21: levelShift adds 128 to every sample in place: after levelShift(B)
\* each B[i] is its old value + 128 and the length of B is unchanged; it is
\* not idempotent: a second call yields the old value + 256.
C21_LevelShiftAdds128 ==
    (blk.pc = "shift" /\ blk.calls >= 1) =>
        /\ Len(blk.block) = Len(blk.before)
        /\ \A i \in 1..Len(blk.block) : blk.block[i] = blk.before[i] + 128
        /\ Len(blk.block) > 0 => blk.block # blk.before
        /\ \A i \in 1..Len(blk.block) : blk.block[i] = blk.input[i] + 128 * blk.calls
        /\ (blk.input = TestSpatial /\ blk.calls = 1) => blk.block = TestShifted

C21_Witness ==
    /\ blk.pc = "shift" /\ blk.calls = 2 /\ blk.input = TestSpatial
    /\ blk.before = TestShifted /\ blk.block[1] = 190 /\ blk.block[64] = 215

(***************************************************************************)
(* Specification SpecUnit: decodeDataUnit (src/jsjpeg.js:749-775) as a     *)
(* whole, from the entropy-coded bits of one data unit to the level-       *)
(* shifted block, for 8-bit and 16-bit quantization tables.                *)
(***************************************************************************)
\* decodeDataUnit after decodeACCoeffs: dequantize, reorder, idct, levelShift
unitBlock(zigzagCoeff, quantTable) ==
    levelShift(idct(reorder(dequantize(zigzagCoeff, quantTable))))

\* DC table: the categories 0, 2, 8, 11 under the codes 00, 01, 10, 11
UnDcBits == [i \in 1..NUM_HUFFMAN_LENGTHS |-> IF i = 2 THEN 4 ELSE 0]
UnDcValues == <<0, 2, 8, 11>>
UnDcTable == LoadTable(UnDcBits, UnDcValues)

\* DC differences of the categories of the table
UnDiffs == {0, 3, -3, 255, -255, 1024, -1024, -1032, 2047, -2047}

Category(diff) ==
    LET a == IF diff < 0 THEN -diff ELSE diff
    IN  IF a = 0 THEN 0 ELSE NatBits(a)

UnDcIndex(t) == CHOOSE i \in 1..Len(UnDcValues) : UnDcValues[i] = t

\* the code of the category, then the amplitude bits of the difference
UnDcStream(diff) ==
    CodeBits(UnDcBits, UnDcIndex(Category(diff)))
    \o AmpBits(Item(Category(diff), diff))

UnAcSeqs ==
    {<<>>, <<Item(1, 1)>>, <<Item(17, -1)>>, <<Item(2, -3)>>,
     <<Item(1, 1), Item(1, -1)>>, <<ZRL, ZRL, ZRL, Item(241, 1)>>}

\* tables with 8-bit entries and a table with 16-bit entries
UnQuants ==
    {[i \in 1..64 |-> 1], TestQuant, [i \in 1..64 |-> 255], [i \in 1..64 |-> 65535]}

InitUnit ==
    /\ mach = reset(<<0>>, RdFrameY) /\ mode = "bit" /\ last = IdleLast /\ pos = 0
    /\ ext = IdleExt /\ huff = IdleHuff /\ scan = IdleScan
    /\ \E diff \in UnDiffs : \E items \in UnAcSeqs : \E q \in UnQuants :
          /\ view = PackBytes(UnDcStream(diff) \o AcStream(items))
          /\ blk = [pc |-> "unit", diff |-> diff, items |-> items,
                    quantTable |-> q, zz |-> <<>>, block |-> <<>>]

\* block = decodeDataUnit(reader, img, scan, id, dcTable, acTable, quantTable);
\* d is the model's decodeDataUnit, which stops before dequantize
UnFinish(d) ==
    /\ mach' = d.rd
    /\ blk' = IF d.rd.exc # "none" THEN [blk EXCEPT !.pc = "failed"]
              ELSE [blk EXCEPT !.pc = "done", !.zz = d.zz,
                               !.block = unitBlock(d.zz, blk.quantTable)]

UnDecodeDataUnit ==
    /\ blk.pc = "unit"
    /\ UnFinish(decodeDataUnit(mach, 1, UnDcTable, AcTable))
    /\ UNCHANGED <<view, mode, last, pos, extVars, huffVars, scanVars>>

NextUnit == UnDecodeDataUnit
SpecUnit == InitUnit /\ [][NextUnit]_vars

\* C22: every block returned by decodeDataUnit has exactly 64 samples and
\* each sample is an integer in 0..255, for every input bit stream, Huffman
\* table and quantization table (8- or 16-bit entries).
C22_SamplesAreBytes ==
    blk.pc = "done" =>
        /\ Len(blk.block) = 64
        /\ \A i \in 1..Len(blk.block) : blk.block[i] \in 0..255

\* what holds of a block with the DC coefficient only: every sample is the
\* dequantized coefficient / 8, rounded, + 128, without a clamp
C22_UnclampedBlock ==
    (blk.pc = "done" /\ blk.items = <<>>) =>
        /\ Len(blk.block) = 64
        /\ blk.zz[1] = blk.diff
        /\ \A i \in 1..64 :
               blk.block[i] - 128 \in
                   { RoundEighth(blk.diff * blk.quantTable[1]),
                     RoundEighth(blk.diff * blk.quantTable[1]) - 1 }

(***************************************************************************)
(* Specification SpecColor: YCbCrToRGB (src/jsjpeg.js:580-587) in binary64 *)
(* arithmetic, on a grid of samples.                                       *)
(***************************************************************************)
\* the number a decimal literal n / d stands for: the one nearest to it
Literal(n, d) == fdiv(FromInt(n), FromInt(d))

\* x - y
fsub(x, y) == fadd(x, [y EXCEPT !.s = 1 - @])

\* a clamp without the lower limit
clampHigh(val) == IF val > 255 THEN 255 ELSE val

clamp(val) == IF val > 255 THEN 255 ELSE IF val < 0 THEN 0 ELSE val

\* the literals 1.402, 0.34414, 0.71414 and 1.772
Lit1402 == Literal(1402, 1000)
Lit34414 == Literal(34414, 100000)
Lit71414 == Literal(71414, 100000)
Lit1772 == Literal(1772, 1000)

YCbCrToRGB(Y, Cb, Cr) ==
    << clamp(MathRound(fadd(FromInt(Y), fmul(Lit1402, FromInt(Cr - 128))))),
       clamp(MathRound(fsub(fsub(FromInt(Y), fmul(Lit34414, FromInt(Cb - 128))),
                            fmul(Lit71414, FromInt(Cr - 128))))),
       clamp(MathRound(fadd(FromInt(Y), fmul(Lit1772, FromInt(Cb - 128))))),
       255 >>

\* Y, Cb, Cr, R, G, B, A of testYCbCrToRGB
TestPixels ==
    << <<0, 128, 128, 0, 0, 0, 255>>,
       <<255, 128, 128, 255, 255, 255, 255>>,
       <<76, 85, 255, 254, 0, 0, 255>>,
       <<150, 44, 21, 0, 255, 1, 255>>,
       <<29, 255, 107, 0, 0, 254, 255>> >>

\* sample values: every ColStep-th value of 0..255, the values of the test
\* and values for which a channel is half-way between two integers
ColStep == 51
ColLevels ==
    { k \in 0..255 : k % ColStep = 0 }
    \cup {0, 3, 21, 29, 44, 47, 76, 78, 85, 107, 128, 150, 178, 253, 255}

InitColor ==
    /\ view = <<>> /\ mach = IdleMach /\ mode = "bit" /\ last = IdleLast
    /\ pos = 0 /\ ext = IdleExt /\ huff = IdleHuff /\ scan = IdleScan
    /\ \E y \in ColLevels : \E cb \in ColLevels : \E cr \in ColLevels :
          blk = [pc |-> "ycc", Y |-> y, Cb |-> cb, Cr |-> cr, pixel |-> <<>>]

\* pixel = YCbCrToRGB(Y, Cb, Cr)
ColConvert ==
    /\ blk.pc = "ycc"
    /\ blk' = [blk EXCEPT !.pc = "rgb", !.pixel = YCbCrToRGB(blk.Y, blk.Cb, blk.Cr)]
    /\ UNCHANGED <<readerVars, extVars, huffVars, scanVars>>

NextColor == ColConvert
SpecColor == InitColor /\ [][NextColor]_vars

\* the integers nearest to num / den (two when num / den is half-way)
NearestInts(num, den) ==
    {(2 * num + den) \div (2 * den), -((den - 2 * num) \div (2 * den))}

Clamped(S) == { IF n > 255 THEN 255 ELSE IF n < 0 THEN 0 ELSE n : n \in S }

C23_WitnessHalfWay ==
    /\ blk.pc = "rgb" /\ blk.Y = 47 /\ blk.Cb = 78 /\ blk.Cr = 178
    /\ blk.pixel = <<117, 28, 0, 255>>

(***************************************************************************)
(* Specification SpecChenWang: idctChenWang (src/index.html:315-468) on    *)
(* blocks of one or two coefficients of up to MaxCoef in magnitude, which  *)
(* take the shortcuts and the four stages of the row and the column pass.  *)
(***************************************************************************)
MaxCoef == 2047

CwAmps == {-MaxCoef, -1, 1, MaxCoef}

\* one coefficient anywhere; a large DC coefficient and one more coefficient
CwBlocks ==
    { [i \in 1..64 |-> IF i = k THEN a ELSE 0] : k \in 1..64, a \in CwAmps }
    \cup { [i \in 1..64 |-> IF i = 1 THEN d ELSE IF i = k THEN a ELSE 0] :
             d \in {-MaxCoef, MaxCoef}, k \in 2..64, a \in {-MaxCoef, MaxCoef} }
    \cup {Zeros64, TestDequantized}

InitChenWang ==
    /\ view = <<>> /\ mach = IdleMach /\ mode = "bit" /\ last = IdleLast
    /\ pos = 0 /\ ext = IdleExt /\ huff = IdleHuff /\ scan = IdleScan
    /\ \E c \in CwBlocks : blk = [pc |-> "coeffs", coeffs |-> c, chenWang |-> <<>>]

\* block = idctChenWang(coeffs)
CwIdct ==
    /\ blk.pc = "coeffs"
    /\ blk' = [blk EXCEPT !.pc = "samples", !.chenWang = idctChenWang(blk.coeffs)]
    /\ UNCHANGED <<readerVars, extVars, huffVars, scanVars>>

NextChenWang == CwIdct
SpecChenWang == InitChenWang /\ [][NextChenWang]_vars

\* C24: every sample returned by idctChenWang is in -128..127, for every
\* 64-element integer input block, the blocks that take the shortcut of the
\* row pass or of the column pass included.
C24_ChenWangClamped ==
    blk.pc = "samples" =>
        /\ Len(blk.chenWang) = 64
        /\ \A i \in 1..64 : blk.chenWang[i] \in -128..127

\* the four stages of the column pass reach both limits
C24_Witness ==
    /\ blk.pc = "samples"
    /\ blk.coeffs = [i \in 1..64 |-> IF i = 9 THEN MaxCoef ELSE 0]
    /\ blk.chenWang[1] = 127 /\ blk.chenWang[57] = -128

\* the shortcut of the column pass reaches the upper limit
C24_WitnessShortcut ==
    /\ blk.pc = "samples" /\ blk.coeffs = DcOnly(MaxCoef)
    /\ Uniform(blk.chenWang, 127)

\* ---------------------------------------------------------------------
\* Shape of the HuffTree of SpecInsert

HasChildren(t, p) == Append(p, 0) \in t.nodes \/ Append(p, 1) \in t.nodes

InPairs(t) == \A p \in t.nodes : Append(p, 0) \in t.nodes <=> Append(p, 1) \in t.nodes

\* the value of the last successful insertCode(len, val) sits at depth len
LastAtDepth ==
    (blk.pc = "inserted" /\ blk.okTree) =>
        \E p \in blk.tree.nodes :
            /\ Len(p) = blk.len /\ blk.tree.data[p] = blk.val
            /\ ~Holds(blk.treeBefore, p)

\* C25: after any sequence of insertCode calls on a HuffTree (any code
\* lengths in any order, successful or not) no node holds a value and has
\* children, every node has either zero or two children, and every stored
\* value sits at a depth equal to the code length it was inserted with.
C25_TreeShape ==
    blk.pc \in {"insert", "inserted"} =>
        /\ \A p \in blk.tree.nodes : ~(Holds(blk.tree, p) /\ HasChildren(blk.tree, p))
        /\ InPairs(blk.tree)
        /\ LastAtDepth

\* the parts of the shape that hold in any order of the lengths
C25_PairsAndDepth ==
    blk.pc \in {"insert", "inserted"} => (InPairs(blk.tree) /\ LastAtDepth)

\* a call with a length no less than the depth of the tree puts no value on
\* a node with children
C25_LeavesInOrder ==
    (blk.pc = "inserted" /\ \A p \in blk.treeBefore.nodes : Len(p) <= blk.len)
    => \A p \in blk.tree.nodes :
           Holds(blk.tree, p) /\ HasChildren(blk.tree, p)
               => Holds(blk.treeBefore, p) /\ HasChildren(blk.treeBefore, p)

\* ---------------------------------------------------------------------
\* Size of the coefficient block after decodeACCoeffs (SpecAC)

\* C26: the coefficient block stays a 64-element sequence: for every
\* sequence of AC symbols, runs and ZRL symbols that would pass the end of
\* the block included, decodeACCoeffs writes only at positions 1..63 and the
\* block handed to dequantize and reorder has exactly 64 entries.
C26_BlockStays64 ==
    blk.pc = "done" =>
        /\ Len(blk.zz) = 64
        /\ blk.zz[1] = 0

\* the block has 64 entries when no coefficient symbol points past 63
C26_WellFormedStays64 ==
    (blk.pc = "done" /\ \A i \in 1..Len(blk.items) :
                            Ssss(blk.items[i]) # 0 => At(blk.items, i) <= 63)
    => (Len(blk.zz) = 64 /\ blk.zz[1] = 0)

\* ---------------------------------------------------------------------
\* The bit register of the peek/consume reader (SpecReader, mode "peek")

\* the valid bits of the register: the buffSize low bits of buffer
ValidBits(s) == SubSeq(s.buffer, 33 - s.buffSize, 32)

\* C27: after peek(n) with n <= 16 the register holds at least n and at
\* most 31 valid bits; consumeBits(k) lowers the count of valid bits by
\* exactly k and is only ever left with a count >= 0; after any sequence of
\* peek, consumeBits and align calls the count of valid bits is an integer
\* in 0..31 and the valid bits are exactly the not-yet-consumed bits of the
\* stream.
C27_RegisterAccounting ==
    [][ (mode = "peek" /\ mach'.exc = "none") =>
            /\ mach'.buffSize \in 0..31
            /\ last'.op = "peek" => mach'.buffSize >= last'.n
            /\ last'.op = "consumeBits" => mach'.buffSize = mach.buffSize - (pos' - pos)
            /\ (Clean /\ mach'.buffSize \in 1..31) =>
                   BitsToNat(ValidBits(mach')) = RefNat(pos', mach'.buffSize) ]_vars

\* what holds: peek(n) leaves n..31 bits in the register, and consumeBits(k)
\* lowers the count by k, below 0 when fewer than k bits are in it
C27_AfterPeek ==
    [][ (mode = "peek" /\ mach'.exc = "none") =>
            /\ last'.op = "peek" => mach'.buffSize \in last'.n..31
            /\ last'.op = "consumeBits" => mach'.buffSize = mach.buffSize - (pos' - pos)
            /\ (last'.op = "consumeBits" /\ pos' - pos <= mach.buffSize) =>
                   mach'.buffSize \in 0..31 ]_vars

(***************************************************************************)
(* Specification SpecBits: decodeHuffman of the tree and of the array      *)
(* decoder on arbitrary bits, also bits that match no code of the table.   *)
(* The buffers hold no 0xFF, so index and cnt give the bits consumed.      *)
(***************************************************************************)
RECURSIVE LoadTreeValues(_, _, _)
LoadTreeValues(t, lens, vals) ==
    IF Len(vals) = 0 THEN t
    ELSE LoadTreeValues(treeInsertCode(t, <<>>, Head(lens), Head(vals)).t,
                        Tail(lens), Tail(vals))

\* parseHuffmanTable with a HuffTree: insertCode for every value
LoadTree(bits, vals) == LoadTreeValues(NewTree, GenSizes(bits, 1), vals)

MaxDecodes == 3

\* the codes 00, 01, 10; the table of testHuffmanDecoder (1111 11111 and
\* longer fit no code a table of which ends at length 8); a code of 16 bits
BitTables ==
    { [bits |-> [i \in 1..NUM_HUFFMAN_LENGTHS |-> IF i = 2 THEN 3 ELSE 0],
       values |-> <<0, 1, 2>>],
      [bits |-> TestBits, values |-> TestValues],
      [bits |-> [i \in 1..NUM_HUFFMAN_LENGTHS |->
                    IF i \in {1, NUM_HUFFMAN_LENGTHS} THEN 1 ELSE 0],
       values |-> <<5, 6>>] }

BitBytes == {0, 90, 128, 192, 254}

BitViews == [1..3 -> BitBytes]

\* bits the reader has delivered
Consumed(s) == 8 * (s.index + 1) - s.cnt

InitBits ==
    /\ mach = IdleMach /\ mode = "bit" /\ last = IdleLast /\ pos = 0
    /\ ext = IdleExt /\ scan = IdleScan /\ blk = IdleBlk
    /\ view \in BitViews
    /\ \E tb \in BitTables :
          huff = [pc |-> "decode", bits |-> tb.bits, values |-> tb.values, n |-> 0,
                  tree |-> LoadTree(tb.bits, tb.values),
                  arr |-> LoadTable(tb.bits, tb.values),
                  treeM |-> reset(<<0>>, 0), arrM |-> reset(<<0>>, 0),
                  treeFrom |-> 0, arrFrom |-> 0]

\* decoder.decodeHuffman(reader, img) once on each decoder
BtDecode ==
    /\ huff.pc = "decode" /\ huff.n < MaxDecodes
    /\ huff.treeM.exc = "none" /\ huff.arrM.exc = "none"
    /\ huff' = [huff EXCEPT
                   !.n = @ + 1,
                   !.treeFrom = Consumed(huff.treeM),
                   !.arrFrom = Consumed(huff.arrM),
                   !.treeM = treeDecodeHuffman(huff.tree, Fresh(huff.treeM)),
                   !.arrM = arrDecodeHuffman(huff.arr, Fresh(huff.arrM))]
    /\ UNCHANGED <<blkVars, readerVars, extVars, scanVars>>

NextBits == BtDecode
SpecBits == InitBits /\ [][NextBits]_vars

\* the call that left reader m, started at bit from, decoded a code of the
\* table and consumed exactly its bits, or found no code; at most 16 bits
DecodedOneCode(m, from) ==
    /\ Consumed(m) - from <= NUM_HUFFMAN_LENGTHS
    /\ m.ret # Undefined =>
          \E k \in 1..Len(huff.values) :
              /\ huff.values[k] = m.ret
              /\ Consumed(m) - from = CanonLen(huff.bits, k)
              /\ \A i \in 1..CanonLen(huff.bits, k) :
                     RefBit(from + i - 1) = CodeBits(huff.bits, k)[i]

\* C28: each decodeHuffman call consumes exactly as many bits as the length
\* of the code it decodes, and never more than 16 bits, for the tree and the
\* array decoder: after a successful decode the reader has advanced by the
\* code length, so consecutive symbols are decoded from consecutive bit
\* positions; on a bit sequence matching no code the call still terminates
\* after at most 16 bits.
C28_ConsumesCodeLength ==
    (huff.pc = "decode" /\ huff.n > 0) =>
        /\ huff.treeM.exc = "none" => DecodedOneCode(huff.treeM, huff.treeFrom)
        /\ huff.arrM.exc = "none" => DecodedOneCode(huff.arrM, huff.arrFrom)

\* what holds: a decoded value has consumed exactly the bits of its code, in
\* both decoders; the tree decoder reads at most 16 bits, the array decoder
\* reads 17 bits when no code matches
C28_SuccessConsumesCode ==
    (huff.pc = "decode" /\ huff.n > 0) =>
        /\ huff.treeM.exc = "none" => DecodedOneCode(huff.treeM, huff.treeFrom)
        /\ (huff.arrM.exc = "none" /\ huff.arrM.ret # Undefined) =>
               DecodedOneCode(huff.arrM, huff.arrFrom)
        /\ (huff.arrM.exc = "none" /\ huff.arrM.ret = Undefined) =>
               Consumed(huff.arrM) - huff.arrFrom = NUM_HUFFMAN_LENGTHS + 1

(***************************************************************************)
(* Specification SpecTable: one Huffman table is loaded into a HuffTable   *)
(* (src/hufftable.js) and a HuffArray in canonical order, and both decode  *)
(* the same buffer of codes, the HuffTable with peek and consumeBits, the  *)
(* HuffArray with nextBit, each with a reader of its own.                  *)
(***************************************************************************)
\* this.table[2 * j] and this.table[2 * j + 1], with i runs before runs[1]
\* and start entries before them; undefined past the entries filled
RECURSIVE TabEntry(_, _, _)
TabEntry(runs, j, start) ==
    IF Len(runs) = 0 THEN [value |-> Undefined, len |-> Undefined]
    ELSE IF j < start + Head(runs).n
    THEN [value |-> Head(runs).value, len |-> Head(runs).len]
    ELSE TabEntry(Tail(runs), j, start + Head(runs).n)

\* decodeHuffman that consumes all the bits it has looked at
tabDecodeWholeLook(h, p) ==
    IF p.exc # "none" THEN p
    ELSE [consumeBits(p, TABLE_LENGTH) EXCEPT !.ret = TabEntry(h.runs, p.ret, 0).value]

\* HuffTable.decodeHuffman after reader.peek(img, TABLE_LENGTH): p is the
\* reader, p.ret the bits. An undefined shift makes buffSize NaN
tabDecodeLook(h, p) ==
    IF p.exc # "none" THEN p
    ELSE IF TabEntry(h.runs, p.ret, 0).len = Undefined
    THEN [p EXCEPT !.ret = Undefined, !.buffSize = NaN]
    ELSE [consumeBits(p, TabEntry(h.runs, p.ret, 0).len) EXCEPT
              !.ret = TabEntry(h.runs, p.ret, 0).value]

tabDecodeHuffman(h, s) == tabDecodeLook(h, peek(s, TABLE_LENGTH))

RECURSIVE LoadTabValues(_, _, _)
LoadTabValues(h, lens, vals) ==
    IF Len(vals) = 0 THEN h
    ELSE LoadTabValues(tabInsertCode(h, Head(lens), Head(vals)).h,
                       Tail(lens), Tail(vals))

\* parseHuffmanTable with a HuffTable
LoadTab(bits, vals) ==
    LoadTabValues(tabInitDecoder(NewTable, bits), GenSizes(bits, 1), vals)

\* a table with codes of 1, 15 and 16 bits
LongBits ==
    [i \in 1..NUM_HUFFMAN_LENGTHS |->
        IF i = 1 THEN 1 ELSE IF i = 15 THEN 1 ELSE IF i = 16 THEN 2 ELSE 0]

TbTable(bits, values, syms) ==
    [pc |-> "decode", bits |-> bits, values |-> values, syms |-> syms,
     tab |-> LoadTab(bits, values), arr |-> LoadTable(bits, values),
     tabM |-> reset(<<0>>, 0), arrM |-> reset(<<0>>, 0),
     tabOut |-> <<>>, arrOut |-> <<>>, shifts |-> <<>>]
\* (shifts: the bits each HuffTable.decodeHuffman took from the register)

InitTable ==
    /\ mach = IdleMach /\ mode = "bit" /\ last = IdleLast /\ pos = 0
    /\ ext = IdleExt /\ scan = IdleScan /\ blk = IdleBlk
    /\ \/ \E bits \in HuffBits :
            \E syms \in SymSeqs(Sum(bits, MaxCodeLen)) :
               /\ huff = TbTable(bits, SubSeq(TestValues, 1, Sum(bits, MaxCodeLen)),
                                 syms)
               /\ view = PackBytes(StreamBits(bits, syms))
       \/ /\ huff = TbTable(TestBits, TestValues, [i \in 1..Len(TestValues) |-> i])
          /\ view = PackBytes(StreamBits(TestBits, [i \in 1..Len(TestValues) |-> i]))
       \/ \E syms \in SymSeqs(4) :
            /\ huff = TbTable(LongBits, <<5, 6, 7, 8>>, syms)
            /\ view = PackBytes(StreamBits(LongBits, syms))

\* decoder.decodeHuffman(reader, img) once on each decoder
TbDecode ==
    /\ huff.pc = "decode"
    /\ huff.tabM.exc = "none" /\ huff.arrM.exc = "none"
    /\ huff.tabM.buffSize # NaN
    /\ huff' = [huff EXCEPT
                   !.tabM = tabDecodeHuffman(huff.tab, Fresh(huff.tabM)),
                   !.arrM = arrDecodeHuffman(huff.arr, Fresh(huff.arrM)),
                   !.tabOut = Append(@, tabDecodeHuffman(huff.tab, Fresh(huff.tabM)).ret),
                   !.arrOut = Append(@, arrDecodeHuffman(huff.arr, Fresh(huff.arrM)).ret),
                   !.shifts = Append(@, peek(Fresh(huff.tabM), TABLE_LENGTH).buffSize
                                        - tabDecodeHuffman(huff.tab, Fresh(huff.tabM)).buffSize),
                   !.pc = IF Len(huff.tabOut) + 1 >= Len(huff.syms)
                          THEN "done" ELSE "decode"]
    /\ UNCHANGED <<blkVars, readerVars, extVars, scanVars>>

NextTable == TbDecode
SpecTable == InitTable /\ [][NextTable]_vars

\* the first lookup index of code k, and the number of indexes that start
\* with it
FirstIndex(bits, k) == CanonCode(bits, k) * 2 ^ (TABLE_LENGTH - CanonLen(bits, k))
IndexCount(bits, k) == 2 ^ (TABLE_LENGTH - CanonLen(bits, k))

\* C29: the lookup-table decoder is equivalent to the array decoder: for a
\* valid table inserted in canonical order and a stream of its codes,
\* HuffTable.decodeHuffman returns the same value as HuffArray.decodeHuffman
\* for each symbol and consumes exactly the code length of that symbol in
\* bits, and every 16-bit lookup index that starts with a code of the table
\* maps to the (value, length) pair of that code.
C29_TableEqualsArray ==
    huff.pc \in {"decode", "done"} =>
        /\ huff.tabM.exc = "none" /\ huff.arrM.exc = "none"
        /\ huff.tabOut = huff.arrOut
        /\ \A i \in 1..Len(huff.tabOut) :
               /\ huff.tabOut[i] = huff.values[huff.syms[i]]
               /\ huff.shifts[i] = CanonLen(huff.bits, huff.syms[i])
        /\ Len(huff.tabOut) > 0 =>
               huff.tabM.buffSize \in 0..(31 - huff.shifts[Len(huff.shifts)])
        /\ \A k \in 1..Len(huff.values) :
               \A j \in {FirstIndex(huff.bits, k),
                         FirstIndex(huff.bits, k) + IndexCount(huff.bits, k) \div 2,
                         FirstIndex(huff.bits, k) + IndexCount(huff.bits, k) - 1} :
                   TabEntry(huff.tab.runs, j, 0) =
                       [value |-> huff.values[k], len |-> CanonLen(huff.bits, k)]

\* both decoders have decoded the 12 values of the table of testHuffmanDecoder
C29_Witness ==
    /\ huff.pc = "done" /\ huff.bits = TestBits
    /\ huff.tabOut = TestValues /\ huff.arrOut = TestValues
    /\ huff.shifts = <<3, 3, 3, 3, 3, 3, 3, 4, 5, 6, 7, 8>>

\* codes of 16, 1 and 15 bits in a row
C29_WitnessLong ==
    /\ huff.pc = "done" /\ huff.bits = LongBits /\ huff.syms = <<4, 1, 2>>
    /\ huff.tabOut = <<8, 5, 6>> /\ huff.shifts = <<16, 1, 15>>

(***************************************************************************)
(* Specification SpecPlace: the component planes of a frame (decodeFrame)  *)
(* and the placement of the data units of one scan into them (decodeScan,  *)
(* decodeMCU). A component is [h, v, hSize, vSize, imgBuff, writes,        *)
(* twice]: imgBuff is a function of the indexes of the array, writes[idx]  *)
(* counts the assignments to imgBuff[idx] in the scan, twice holds the     *)
(* indexes assigned more than once.                                        *)
(***************************************************************************)
\* Math.ceil(x), x >= 0
MathCeil(x) ==
    IF x.m = <<>> THEN 0
    ELSE IF x.e >= 0 THEN BigToNat(BigShl(x.m, x.e))
    ELSE IF -x.e > 4 * Precision THEN 1
    ELSE BigToNat(BigShr(BigAdd(x.m, BigSub(BigShl(<<1>>, -x.e), <<1>>)), -x.e))

\* hmax, vmax: the largest factor of the components, from 0
RECURSIVE MaxFactor(_, _)
MaxFactor(factors, sofar) ==
    IF Len(factors) = 0 THEN sofar
    ELSE MaxFactor(Tail(factors), Max(sofar, Head(factors)))

\* frame.hMCUs, frame.vMCUS
NumMCUs(frameSize, fmax) ==
    MathCeil(fdiv(fdiv(FromInt(frameSize), FromInt(DATA_UNIT_SIZE)), FromInt(fmax)))

\* component.hSize, component.vSize
PlaneSize(output, factor, fmax) ==
    MathCeil(fmul(FromInt(output), fdiv(FromInt(factor), FromInt(fmax))))

\* a component with its output buffer
Plane(h, v, hSize, vSize) ==
    [h |-> h, v |-> v, hSize |-> hSize, vSize |-> vSize,
     imgBuff |-> [k \in 0..((hSize * vSize) - 1) |-> 0],
     writes |-> [k \in 0..((hSize * vSize) - 1) |-> 0], twice |-> {}]

\* "Calculate component dimensions" and "Set up output buffers"
frameComponents(factors, hmax, vmax, hMCUs, vMCUS) ==
    [frame |-> [hMCUs |-> hMCUs, vMCUS |-> vMCUS,
                outputX |-> hMCUs * hmax * DATA_UNIT_SIZE,
                outputY |-> vMCUS * vmax * DATA_UNIT_SIZE],
     components |->
        [i \in 1..Len(factors) |->
            Plane(factors[i][1], factors[i][2],
                  PlaneSize(hMCUs * hmax * DATA_UNIT_SIZE, factors[i][1], hmax),
                  PlaneSize(vMCUS * vmax * DATA_UNIT_SIZE, factors[i][2], vmax))]]

\* "Calculate # of horizontal + vertical MCUs in the image"
frameMCUs(frameX, frameY, factors, hmax, vmax) ==
    frameComponents(factors, hmax, vmax, NumMCUs(frameX, hmax), NumMCUs(frameY, vmax))

\* decodeFrame from "Figure out component dimensions": factors[i] is
\* <<H, V>> of component i
decodeFrame(frameX, frameY, factors) ==
    frameMCUs(frameX, frameY, factors,
              MaxFactor([i \in 1..Len(factors) |-> factors[i][1]], 0),
              MaxFactor([i \in 1..Len(factors) |-> factors[i][2]], 0))

\* mcuX that leaves out the blocks per MCU
mcuXNoFactor(c, vMCU, hMCU) ==
    (vMCU * c.v * DATA_UNIT_SIZE * c.hSize) + (hMCU * DATA_UNIT_SIZE)

\* mcuX = mcuY + (hMCU * h * DATA_UNIT_SIZE)
mcuX(c, vMCU, hMCU) ==
    (vMCU * c.v * DATA_UNIT_SIZE * c.hSize) + (hMCU * c.h * DATA_UNIT_SIZE)

\* blockLineStart = mcuX + topY + topX + (yy * component.hSize)
blockLineStart(c, vMCU, hMCU, y, x, yy) ==
    mcuX(c, vMCU, hMCU) + (y * DATA_UNIT_SIZE * c.hSize) + (x * DATA_UNIT_SIZE)
    + (yy * c.hSize)

\* the loop over xx of line yy, component.imgBuff[idx] = block[yy *
\* DATA_UNIT_SIZE + xx] for the DATA_UNIT_SIZE indexes from start =
\* blockLineStart on; an index past the end grows the array
copyLine(c, start, block, yy) ==
    IF start..(start + DATA_UNIT_SIZE - 1) \subseteq DOMAIN c.imgBuff
    THEN [c EXCEPT
             !.imgBuff = [@ EXCEPT
                              ![start + 0] = block[(yy * DATA_UNIT_SIZE) + 1],
                              ![start + 1] = block[(yy * DATA_UNIT_SIZE) + 2],
                              ![start + 2] = block[(yy * DATA_UNIT_SIZE) + 3],
                              ![start + 3] = block[(yy * DATA_UNIT_SIZE) + 4],
                              ![start + 4] = block[(yy * DATA_UNIT_SIZE) + 5],
                              ![start + 5] = block[(yy * DATA_UNIT_SIZE) + 6],
                              ![start + 6] = block[(yy * DATA_UNIT_SIZE) + 7],
                              ![start + 7] = block[(yy * DATA_UNIT_SIZE) + 8]],
             !.writes = [@ EXCEPT
                             ![start + 0] = @ + 1,
                             ![start + 1] = @ + 1,
                             ![start + 2] = @ + 1,
                             ![start + 3] = @ + 1,
                             ![start + 4] = @ + 1,
                             ![start + 5] = @ + 1,
                             ![start + 6] = @ + 1,
                             ![start + 7] = @ + 1],
             !.twice = @ \cup {idx \in start..(start + DATA_UNIT_SIZE - 1) :
                                  c.writes[idx] > 0}]
    ELSE [c EXCEPT
             !.imgBuff = [idx \in start..(start + DATA_UNIT_SIZE - 1) |->
                             block[(yy * DATA_UNIT_SIZE) + (idx - start) + 1]] @@ @,
             !.writes = [idx \in start..(start + DATA_UNIT_SIZE - 1) |->
                            IF idx \in DOMAIN c.writes THEN c.writes[idx] + 1 ELSE 1]
                        @@ @,
             !.twice = @ \cup {idx \in (start..(start + DATA_UNIT_SIZE - 1))
                                        \cap DOMAIN c.writes : c.writes[idx] > 0}]

\* "Copy block contents to component" for block (y, x) of MCU (vMCU, hMCU):
\* the loop over yy, from yy on; st.c is the component
RECURSIVE copyBlock(_, _, _, _, _, _, _)
copyBlock(st, vMCU, hMCU, y, x, block, yy) ==
    IF yy >= DATA_UNIT_SIZE THEN st
    ELSE copyBlock([c |-> copyLine(st.c, blockLineStart(st.c, vMCU, hMCU, y, x, yy),
                                   block, yy)],
                   vMCU, hMCU, y, x, block, yy + 1)

\* the block of data unit number unit of the scan
PlBlock(seed, unit) ==
    [i \in 1..(DATA_UNIT_SIZE * DATA_UNIT_SIZE) |-> 1 + ((seed + (3 * unit) + i) % 255)]

\* the loops over y and x of decodeMCU for one component, from block n of
\* the MCU on; st is [c, unit]
RECURSIVE mcuBlocks(_, _, _, _, _)
mcuBlocks(st, vMCU, hMCU, n, seed) ==
    IF n >= st.c.h * st.c.v THEN st
    ELSE mcuBlocks([c |-> copyBlock([c |-> st.c], vMCU, hMCU,
                                    n \div st.c.h, n % st.c.h,
                                    PlBlock(seed, st.unit), 0).c,
                    unit |-> st.unit + 1],
                   vMCU, hMCU, n + 1, seed)

\* component i of the components replaced by its state after its blocks
mcuComponent(components, i, after) ==
    [components |-> [components EXCEPT ![i] = after.c], unit |-> after.unit]

\* decodeMCU: the loop over scan.orderedComponents, from component i on; st is
\* [components, unit]
RECURSIVE mcuComponents(_, _, _, _, _)
mcuComponents(st, vMCU, hMCU, i, seed) ==
    IF i > Len(st.components) THEN st
    ELSE mcuComponents(
            mcuComponent(st.components, i,
                         mcuBlocks([c |-> st.components[i], unit |-> st.unit],
                                   vMCU, hMCU, 0, seed)),
            vMCU, hMCU, i + 1, seed)

decodeMCU(components, unit, vMCU, hMCU, seed) ==
    mcuComponents([components |-> components, unit |-> unit], vMCU, hMCU, 1, seed)

MaxFrameX == 33
MaxFrameY == 33
FrameXs == {1, MaxFrameX}
FrameYs == {0, MaxFrameY}
Factors == (1..4) \X (1..4)

\* one component, two components, and Y, Cb, Cr with the chroma planes halved
FactorLists ==
    {<<f>> : f \in Factors}
    \cup {<<f, g>> : f \in Factors,
                     g \in {<<1, 1>>, <<4, 4>>, <<2, 3>>, <<3, 2>>}}
    \cup {<<<<2, 2>>, <<1, 1>>, <<1, 1>>>>, <<<<2, 1>>, <<1, 1>>, <<1, 1>>>>}

\* the scan of a frame before its first MCU
PlScan(frameX, frameY, decoded) ==
    [pc |-> IF decoded.frame.vMCUS = 0 THEN "drawn" ELSE "mcu",
     frameX |-> frameX, frameY |-> frameY, frame |-> decoded.frame,
     planes |-> [components |-> decoded.components, unit |-> 0],
     seed |-> frameX + frameY, v |-> 0, h |-> 0]

InitPlace ==
    /\ view = <<>> /\ mach = IdleMach /\ mode = "bit" /\ last = IdleLast
    /\ pos = 0 /\ ext = IdleExt /\ huff = IdleHuff /\ blk = IdleBlk
    /\ \E frameX \in FrameXs : \E frameY \in FrameYs : \E factors \in FactorLists :
          scan = PlScan(frameX, frameY, decodeFrame(frameX, frameY, factors))

\* decodeScan: one turn of the loops over v and h, decodeMCU(reader, img,
\* scan, v, h)
PlDecodeMCU ==
    /\ scan.pc = "mcu"
    /\ scan' =
         [scan EXCEPT
             !.planes = decodeMCU(scan.planes.components, scan.planes.unit,
                                  scan.v, scan.h, scan.seed),
             !.h = IF scan.h + 1 < scan.frame.hMCUs THEN scan.h + 1 ELSE 0,
             !.v = IF scan.h + 1 < scan.frame.hMCUs THEN scan.v ELSE scan.v + 1,
             !.pc = IF scan.h + 1 >= scan.frame.hMCUs
                       /\ scan.v + 1 >= scan.frame.vMCUS
                    THEN "drawn" ELSE "mcu"]
    /\ UNCHANGED <<readerVars, extVars, huffVars, blkVars>>

NextPlace == PlDecodeMCU
SpecPlace == InitPlace /\ [][NextPlace]_vars

\* hMCUs and hSize are the integers of A.1.1 for every frame of up to
\* 8 * MaxSizeMCUs samples and MaxSizeMCUs MCUs in a row: the rounding of the divisions by 3 does not
\* reach Math.ceil
MaxSizeMCUs == 64

SizesExact ==
    \A fmax \in 1..4 :
        /\ \A frameSize \in 1..(DATA_UNIT_SIZE * MaxSizeMCUs) :
               NumMCUs(frameSize, fmax)
                   = (frameSize + (DATA_UNIT_SIZE * fmax) - 1) \div (DATA_UNIT_SIZE * fmax)
        /\ \A n \in 1..MaxSizeMCUs : \A factor \in 1..fmax :
               PlaneSize(n * fmax * DATA_UNIT_SIZE, factor, fmax)
                   = n * factor * DATA_UNIT_SIZE

\* C30: MCU placement writes every sample position of a component plane
\* exactly once per scan: for every frame size and sampling factors h, v in
\* 1..4, every index written into component.imgBuff is inside
\* 0..hSize*vSize-1 (the array never grows), no index is written twice, and
\* at the end of the scan every index has been written.
C30_PlacementExactlyOnce ==
    scan.pc \in {"mcu", "drawn"} =>
        /\ SizesExact
        /\ \A i \in 1..Len(scan.planes.components) :
               LET c == scan.planes.components[i]
               IN  /\ DOMAIN c.imgBuff = 0..((c.hSize * c.vSize) - 1)
                   /\ c.hSize = scan.frame.hMCUs * c.h * DATA_UNIT_SIZE
                   /\ c.vSize = scan.frame.vMCUS * c.v * DATA_UNIT_SIZE
                   /\ c.twice = {}
                   /\ scan.pc = "drawn" =>
                          c.writes = [idx \in 0..((c.hSize * c.vSize) - 1) |-> 1]

\* a 33 x 33 frame with a 3 x 2 and a 2 x 3 component is decoded: planes
\* of 48 x 32 and 32 x 48 samples from four MCUs of 12 data units
C30_Witness ==
    /\ scan.pc = "drawn" /\ scan.frameX = MaxFrameX /\ scan.frameY = MaxFrameY
    /\ Len(scan.planes.components) = 2
    /\ scan.planes.components[1].h = 3 /\ scan.planes.components[1].v = 2
    /\ scan.planes.components[2].h = 2 /\ scan.planes.components[2].v = 3
    /\ scan.frame.hMCUs >= 2 /\ scan.frame.vMCUS >= 2
    /\ DOMAIN scan.planes.components[1].imgBuff
           = 0..((scan.frame.hMCUs * 24 * scan.frame.vMCUS * 16) - 1)
    /\ DOMAIN scan.planes.components[2].imgBuff
           = 0..((scan.frame.hMCUs * 16 * scan.frame.vMCUS * 24) - 1)
    /\ \A idx \in DOMAIN scan.planes.components[1].imgBuff :
           /\ scan.planes.components[1].writes[idx] = 1
           /\ scan.planes.components[1].imgBuff[idx] \in 1..255
    /\ scan.planes.unit = 12 * scan.frame.hMCUs * scan.frame.vMCUS

\* a frame of one 4 x 4 component and two MCUs in each direction
C30_WitnessLargeMCUs ==
    /\ scan.pc = "drawn" /\ Len(scan.planes.components) = 1
    /\ scan.planes.components[1].h = 4 /\ scan.planes.components[1].v = 4
    /\ scan.frame.hMCUs >= 2 /\ scan.frame.vMCUS >= 2
    /\ scan.planes.unit = 16 * scan.frame.hMCUs * scan.frame.vMCUS

====
